---------------------------- MODULE Spec2Model ----------------------------
(***************************************************************************)
(* A model of the dashboard-stroi / SUID report scripts:                   *)
(*   check_photos.py, cameras.py, plan_fact_parser.py and                  *)
(*   control_points_parser.py.                                             *)
(*                                                                         *)
(* The module holds several specifications over one set of variables:      *)
(*   SpecAuth   the DashboardstroiClient session: authorize, get, post,    *)
(*              get_photo_hash                                             *)
(*   SpecRun    the four __main__ entry points as runs                     *)
(*   SpecEtapi  collect_etapi_data, one object after the other             *)
(*   SpecRecon  the reconciliation part of control_points_parser.__main__  *)
(*   SpecPhoto  get_photo_status for one object                            *)
(*   SpecCatalog, SpecListing  get_catalog_objects and get_catalog_ids     *)
(*   SpecWorks  SUIDClient.get_works                                       *)
(*   SpecSessions  the two clients of control_points_parser side by side   *)
(* Strings are sequences of characters, so that decoding, trimming and     *)
(* lowercasing are computed and not assumed.                               *)
(***************************************************************************)
EXTENDS Integers, Sequences, FiniteSets, TLC

VARIABLES
    \* ---- DashboardstroiClient (SpecAuth)
    token,          \* self.token
    xsrf_token,     \* self.xsrf_token
    lastReq,        \* the last HTTP request the client's session sent
    lastAuth,       \* what the last authorize() call saw and how it ended
    everAuthorized, \* some authorize() call has returned True
    photo_hash,     \* the value the last get_photo_hash returned
    \* ---- the __main__ entry points (SpecRun)
    entry,          \* which script runs
    pc,             \* where the run stands
    attempt,        \* plan_fact_parser: the login attempt, from 1
    authResult,     \* how the last dashboard authorize() ended
    todo,           \* the objects the per-object loop has still to visit
    results,        \* what the loop has recorded, one entry per visited object
    failedFetch,    \* objects whose dashboard fetch was non-200 or undecodable
    netErr,         \* an HTTP call of the run has raised
    catalogReqs,    \* catalog requests sent
    objectReqs,     \* per-object requests sent
    fileWritten,    \* the export file has been written
    \* ---- collect_etapi_data (SpecEtapi)
    objects,        \* the ids of the objects argument, in order
    idx,            \* position of the loop in objects, from 1
    epc,            \* where collect_etapi_data stands
    cash,           \* the manager-name cache: object id -> name
    etAttempt,      \* attempt of the retry loop, from 0
    etapi,          \* the local etapi
    all_data,       \* the rows collected so far
    lastObj,        \* the object the loop body last started on (0: none)
    outcomes,       \* the responses of that object's control-point fetches
    sleeps,         \* the time.sleep calls made for that object, in 0.1 s
    \* ---- control_points_parser.__main__ after the collection (SpecRecon)
    df,             \* the dataframe of the collected rows, dates as text
    df_new,         \* the working copy: parsed dates, flags, ledger dates
    rpc,            \* where the reconciliation stands
    ledger,         \* the work-ledger backend: object id -> its works
    worksTodo,      \* objects the current per-object loop has still to visit
    suid_works_cache, \* object id -> works_dict, as a list of entries
    fetched,        \* the get_works results so far: pass, object id, works
    work,           \* the module-level name work (unbound until assigned)
    cpFile,         \* control_points.xlsx as it lies on the disk
    control_points_list, \* the supplementary names read from the file
    additional_data, \* the rows of the supplementary check
    hasSuidCols,    \* df_new has the suid_* columns
    exported,       \* the export file has been written
    directive_date_map, \* object id -> planned_commissioning_directive_date
    exclFile,       \* excluded_objects.xlsx as mark_column_as found it
    final,          \* the rows of df_new handed to to_excel, last columns
    \* ---- check_photos.get_photo_status for one object (SpecPhoto)
    ppc,            \* where the call stands
    photoToday,     \* datetime.now().date() of the call
    snapshot,       \* the decoded dashboard snapshot of the object
    last_two_dates, \* the local last_two_dates
    hashes_date1,   \* the local hashes_date1
    photoQueue,     \* the photos of the current loop still to hash
    fetchLog,       \* the get_photo_hash calls made: photo, date, hash
    photoStatus,    \* what get_photo_status returned
    \* ---- get_catalog_objects (SpecCatalog)
    catParams,      \* the params of the catalog request
    catResp,        \* the response to it
    catResult,      \* what get_catalog_objects returned or that it raised
    upstream,       \* what the catalog backend answers while it is unchanged
    listings,       \* the results of the get_catalog_ids calls so far
    \* ---- SUIDClient next to DashboardstroiClient (SpecWorks, SpecSessions)
    suid_token,     \* SUIDClient.token
    suid_jar,       \* the cookies of SUIDClient.session
    dash_jar,       \* the cookies of DashboardstroiClient.session
    wire,           \* the requests sent so far, by either client
    actor,          \* the client that took the last step
    worksReq,       \* the argument of the last get_works and the URL it posted to
    worksResp,      \* the response to it
    worksResult     \* what get_works returned

authVars == <<token, xsrf_token, lastReq, lastAuth, everAuthorized, photo_hash>>

runVars == <<entry, pc, attempt, authResult, todo, results, failedFetch, netErr,
             catalogReqs, objectReqs, fileWritten>>

etapiVars == <<objects, idx, epc, cash, etAttempt, etapi, all_data, lastObj, outcomes,
               sleeps>>

reconVars == <<df, df_new, rpc, ledger, worksTodo, suid_works_cache, fetched, work,
               cpFile, control_points_list, additional_data, hasSuidCols, exported,
               directive_date_map, exclFile, final>>

photoVars == <<ppc, photoToday, snapshot, last_two_dates, hashes_date1, photoQueue,
               fetchLog, photoStatus>>

catalogVars == <<catParams, catResp, catResult, upstream, listings>>

suidVars == <<suid_token, suid_jar, dash_jar, wire, actor, worksReq, worksResp,
              worksResult>>

vars == <<authVars, runVars, etapiVars, reconVars, photoVars, catalogVars, suidVars>>

nonAuthVars == <<runVars, etapiVars, reconVars, photoVars, catalogVars, suidVars>>

nonRunVars == <<authVars, etapiVars, reconVars, photoVars, catalogVars, suidVars>>

nonEtapiVars == <<authVars, runVars, reconVars, photoVars, catalogVars, suidVars>>

nonReconVars == <<authVars, runVars, etapiVars, photoVars, catalogVars, suidVars>>

\* What the photo check leaves alone beside the client it calls.
nonPhotoVars == <<runVars, etapiVars, reconVars, catalogVars, suidVars>>

\* What a catalog call leaves alone beside the client it calls.
nonCatalogVars == <<runVars, etapiVars, reconVars, photoVars, suidVars>>

\* What the two clients together leave alone.
nonSessionVars == <<runVars, etapiVars, reconVars, photoVars, catalogVars>>

-----------------------------------------------------------------------------
(* Strings *)

\* Python's None, as a value comparable with every string of the model.
None == <<"<None>">>

\* Python truthiness of an Optional[str]: neither None nor "".
Truthy(s) == s # None /\ s # <<>>

\* `x in q` for a list q
InSeq(x, q) == \E i \in 1..Len(q) : q[i] = x

\* All sequences over S of length at most n.
SeqsUpTo(S, n) == UNION {[1..k -> S] : k \in 0..n}

\* The text "dashboard-stroi.mos.ru", kept as one atom of a string.
Dom == "dashboard-stroi.mos.ru"

\* `needle in s` for the needle Dom: the other atoms are single characters or
\* texts that do not overlap with it.
ContainsDom(s) == \E i \in 1..Len(s) : s[i] = Dom

\* The hexadecimal digits among the characters of the model.
IsHex(c) == c \in {"2", "5"}

\* chr(int(pair, 16)) for the pairs the model's digits can form.
HexChar(a, b) ==
    CASE a = "2" /\ b = "2" -> "\""
      [] a = "2" /\ b = "5" -> "%"
      [] a = "5" /\ b = "2" -> "R"
      [] OTHER              -> "U"

\* urllib.parse.unquote: one left-to-right pass, %XX with two hex digits is
\* replaced by its character, any other % stays; the output is not rescanned.
RECURSIVE Unquote(_)
Unquote(s) ==
    IF s = <<>> THEN <<>>
    ELSE IF s[1] = "%" /\ Len(s) >= 3 /\ IsHex(s[2]) /\ IsHex(s[3])
         THEN <<HexChar(s[2], s[3])>> \o Unquote(SubSeq(s, 4, Len(s)))
         ELSE <<s[1]>> \o Unquote(Tail(s))

\* str.replace("+", " ")
PlusToSpace(s) == [i \in 1..Len(s) |-> IF s[i] = "+" THEN " " ELSE s[i]]

\* urllib.parse.unquote_plus
UnquotePlus(s) == Unquote(PlusToSpace(s))


-----------------------------------------------------------------------------
(* Bounds of the session model *)

\* Raw values of the token query parameter are made of at most this many
\* pieces of TokPieces.
MaxTokPieces == 3

-----------------------------------------------------------------------------
(* The final URL of the login redirect chain *)

\* Hosts the redirect chain can end on: the application, the identity
\* provider, and a foreign host whose name contains the application's.
Hosts == {<<Dom>>, <<"sudir.mos.ru">>, <<Dom, ".evil.example">>}

\* The pieces raw token values are written with: a percent sign, the two
\* digits of its own escape, and a lone digit.
TokPieces == {<<"%">>, <<"2", "5">>, <<"2">>}

RECURSIVE Flatten(_)
Flatten(ps) == IF ps = <<>> THEN <<>> ELSE ps[1] \o Flatten(Tail(ps))

TokVals == {Flatten(ps) : ps \in SeqsUpTo(TokPieces, MaxTokPieces)}

BoVals == {<<Dom>>}

TokParams == {[key |-> "token", val |-> v] : v \in TokVals}

BoParams == {[key |-> "bo", val |-> v] : v \in BoVals}

\* Query strings: an optional bo parameter, then an optional token parameter.
Queries ==
    {<<>>} \cup {<<t>> : t \in TokParams} \cup {<<b>> : b \in BoParams}
    \cup {<<b, t>> : b \in BoParams, t \in TokParams}

FinalUrls == [host : Hosts, path : {<<"/">>}, query : Queries]

RECURSIVE QueryText(_)
QueryText(q) ==
    IF q = <<>> THEN <<>>
    ELSE <<q[1].key, "=">> \o q[1].val \o <<"&">> \o QueryText(Tail(q))

\* login_response.url as text
UrlText(u) == <<"https://">> \o u.host \o u.path \o <<"?">> \o QueryText(u.query)

\* The raw value of the first parameter `key` that parse_qs keeps: parse_qs
\* drops parameters whose raw value is blank (keep_blank_values=False).
RECURSIVE RawParam(_, _)
RawParam(q, key) ==
    IF q = <<>> THEN None
    ELSE IF q[1].key = key /\ q[1].val # <<>> THEN q[1].val
    ELSE RawParam(Tail(q), key)

\* parse_qs(parsed.query).get(key, [None])[0]: parse_qs decodes every value
\* with unquote after replacing "+" by a space.
ParseQsFirst(q, key) ==
    IF RawParam(q, key) = None THEN None ELSE UnquotePlus(RawParam(q, key))

\* Values of the XSRF-TOKEN cookie in the session's jar after the login POST.
CookieVals == {None, <<>>, <<"+", "%", "2", "5">>}

-----------------------------------------------------------------------------
(* Requests *)

NoHeaders == [Authorization |-> None, XXsrfToken |-> None, Accept |-> None, XRequestedWith |-> None]

\* The headers= argument a caller may pass to get or post.
CallerHeaders ==
    {NoHeaders,
     [NoHeaders EXCEPT !.Authorization = <<"Basic caller">>],
     [NoHeaders EXCEPT !.XXsrfToken = <<"caller-xsrf">>],
     [NoHeaders EXCEPT !.Accept = <<"text/csv">>]}

Bearer(t) == <<"Bearer ">> \o t

\* dict.setdefault
SetDefault(v, d) == IF v = None THEN d ELSE v

\* The header dictionary get() and post() build: the tokens when set, then
\* the defaults.
AttachedHeaders(caller, accept) ==
    [Authorization  |-> IF Truthy(token) THEN Bearer(token) ELSE caller.Authorization,
     XXsrfToken     |-> IF Truthy(xsrf_token) THEN xsrf_token ELSE caller.XXsrfToken,
     Accept         |-> SetDefault(caller.Accept, accept),
     XRequestedWith |-> SetDefault(caller.XRequestedWith, <<"XMLHttpRequest">>)]

NoRequest == [via |-> "none", caller |-> NoHeaders, headers |-> NoHeaders]

\* The last request of authorize(): the login POST, sent through
\* self.session directly.
LoginPost == [via |-> "authorize", caller |-> NoHeaders, headers |-> NoHeaders]

NoAuth == [result |-> "none", hasUrl |-> FALSE, hostIsTarget |-> FALSE,
           rawToken |-> None, cookie |-> None]

-----------------------------------------------------------------------------
(* DashboardstroiClient *)

\* __init__
InitAuth ==
    /\ token = None
    /\ xsrf_token = None
    /\ lastReq = NoRequest
    /\ lastAuth = NoAuth
    /\ everAuthorized = FALSE
    /\ photo_hash = None

\* The messages of the two exceptions authorize() raises itself:
\* "Ошибка авторизации" and "Токен не найден в URL".
ErrAuthFailed == "Oshibka avtorizatsii"

ErrTokenMissing == "Token ne naiden v URL"

\* Step 4 of authorize: the check that the login succeeded.
LoginAccepted(u) == ContainsDom(UrlText(u))

\* Every entry point constructs its client and calls authorize() on it once
\* (plan_fact_parser constructs a new client for each login attempt), so
\* authorize() is taken on a client that has not been through it.

\* authorize() when one of its three session requests raises.
AuthorizeNetworkError ==
    /\ lastAuth = NoAuth
    /\ lastReq' = LoginPost
    /\ lastAuth' = [NoAuth EXCEPT !.result = "network_error"]
    /\ UNCHANGED <<token, xsrf_token, everAuthorized, photo_hash>>

\* authorize() with the token stored as soon as it is parsed, before the
\* checks of steps 4 and 5 have passed.
AuthorizeStoresBeforeChecks(u, c) ==
    LET token_param == ParseQsFirst(u.query, "token")
        seen == [result |-> "ok", hasUrl |-> TRUE, hostIsTarget |-> (u.host = <<Dom>>),
                 rawToken |-> RawParam(u.query, "token"), cookie |-> c]
        failed == ~LoginAccepted(u) \/ ~Truthy(token_param)
    IN
    /\ lastAuth = NoAuth
    /\ lastReq' = LoginPost
    /\ photo_hash' = photo_hash
    /\ token' = IF token_param = None THEN token ELSE Unquote(token_param)
    /\ xsrf_token' = IF Truthy(c) THEN UnquotePlus(c) ELSE xsrf_token
    /\ everAuthorized' = ~failed
    /\ lastAuth' = IF ~LoginAccepted(u)
                   THEN [seen EXCEPT !.result = ErrAuthFailed, !.rawToken = None]
                   ELSE IF ~Truthy(token_param)
                   THEN [seen EXCEPT !.result = ErrTokenMissing]
                   ELSE seen

\* authorize() when the login POST resolves to the final URL u with the
\* cookie value c in the jar.
Authorize(u, c) ==
    LET token_param == ParseQsFirst(u.query, "token")
        seen == [result |-> "ok", hasUrl |-> TRUE, hostIsTarget |-> (u.host = <<Dom>>),
                 rawToken |-> RawParam(u.query, "token"), cookie |-> c]
    IN
    /\ lastAuth = NoAuth
    /\ lastReq' = LoginPost
    /\ photo_hash' = photo_hash
    /\ IF ~LoginAccepted(u)
       THEN /\ lastAuth' = [seen EXCEPT !.result = ErrAuthFailed, !.rawToken = None]
            /\ UNCHANGED <<token, xsrf_token, everAuthorized>>
       ELSE IF ~Truthy(token_param)
       THEN /\ lastAuth' = [seen EXCEPT !.result = ErrTokenMissing]
            /\ UNCHANGED <<token, xsrf_token, everAuthorized>>
       ELSE /\ lastAuth' = seen
            /\ token' = Unquote(token_param)
            /\ xsrf_token' = IF Truthy(c) THEN UnquotePlus(c) ELSE xsrf_token
            /\ everAuthorized' = TRUE

\* get(path, headers=caller)
Get(caller) ==
    /\ lastReq' = [via |-> "get", caller |-> caller,
                   headers |-> AttachedHeaders(caller, <<"application/json, text/html, */*">>)]
    /\ UNCHANGED <<token, xsrf_token, lastAuth, everAuthorized, photo_hash>>

\* post(path, headers=caller)
Post(caller) ==
    /\ lastReq' = [via |-> "post", caller |-> caller,
                   headers |-> AttachedHeaders(caller, <<"application/json">>)]
    /\ UNCHANGED <<token, xsrf_token, lastAuth, everAuthorized, photo_hash>>

\* Contents a photo URL can serve.
Contents == {"jpegA", "jpegB"}

\* hashlib.md5(content).hexdigest()
Md5(content) == <<"md5:", content>>

\* Outcomes of the photo fetch: a 200 with its content, another status, or
\* an exception of the HTTP call.
PhotoResponses == [status : {200}, content : Contents]
                  \cup {[status |-> 404, content |-> "html"], [status |-> 0, content |-> "raised"]}

\* The request get_photo_hash sends: self.session.get(full_url, timeout=5).
PhotoFetch == [via |-> "photo", caller |-> NoHeaders, headers |-> NoHeaders]

\* The variant that hashes whatever body came back, whatever the status.
GetPhotoHashAnyStatus(argsGiven, resp) ==
    /\ IF ~argsGiven
       THEN /\ photo_hash' = None
            /\ lastReq' = lastReq
       ELSE /\ lastReq' = PhotoFetch
            /\ photo_hash' = Md5(resp.content)
    /\ UNCHANGED <<token, xsrf_token, lastAuth, everAuthorized>>

\* get_photo_hash(photo_url, base_photo_url, object_uin, date); argsGiven
\* says whether all four arguments are truthy.
GetPhotoHash(argsGiven, resp) ==
    /\ IF ~argsGiven
       THEN /\ photo_hash' = None
            /\ lastReq' = lastReq
       ELSE /\ lastReq' = PhotoFetch
            /\ photo_hash' = IF resp.status = 200 THEN Md5(resp.content) ELSE None
    /\ UNCHANGED <<token, xsrf_token, lastAuth, everAuthorized>>

\* DashboardstroiClient(login, password) again: a new client object.
NewClient ==
    /\ lastAuth # NoAuth
    /\ token' = None
    /\ xsrf_token' = None
    /\ lastReq' = NoRequest
    /\ lastAuth' = NoAuth
    /\ everAuthorized' = FALSE
    /\ photo_hash' = None

\* No script is running.
IdleRun ==
    /\ entry = "none"
    /\ pc = "idle"
    /\ attempt = 1
    /\ authResult = "none"
    /\ todo = <<>>
    /\ results = <<>>
    /\ failedFetch = {}
    /\ netErr = FALSE
    /\ catalogReqs = 0
    /\ objectReqs = 0
    /\ fileWritten = FALSE

\* collect_etapi_data is not running.
IdleEtapi ==
    /\ objects = <<>>
    /\ idx = 1
    /\ epc = "idle"
    /\ cash = <<>>
    /\ etAttempt = 0
    /\ etapi = [kind |-> "None", in_progress |-> <<>>, complete |-> <<>>]
    /\ all_data = <<>>
    /\ lastObj = 0
    /\ outcomes = <<>>
    /\ sleeps = <<>>

\* The reconciliation is not running.
NoExclusionFile == [kind |-> "none", ids |-> <<>>]

IdleRecon ==
    /\ df = <<>>
    /\ df_new = <<>>
    /\ rpc = "idle"
    /\ ledger = <<>>
    /\ worksTodo = <<>>
    /\ suid_works_cache = <<>>
    /\ fetched = <<>>
    /\ work = [bound |-> FALSE, fact_end_date |-> None]
    /\ cpFile = [kind |-> "missing", points |-> <<>>]
    /\ control_points_list = <<>>
    /\ additional_data = <<>>
    /\ hasSuidCols = FALSE
    /\ exported = FALSE
    /\ directive_date_map = [o \in 1..2 |-> None]
    /\ exclFile = NoExclusionFile
    /\ final = <<>>

\* The catalog has not been asked.
NoCatalogResp == [status |-> 0, decodes |-> FALSE, objects |-> "absent", data |-> "absent",
                  items |-> <<>>]

NoCatalogResult == [outcome |-> "none", value |-> <<>>]

IdleCatalog ==
    /\ catParams = <<>>
    /\ catResp = NoCatalogResp
    /\ catResult = NoCatalogResult
    /\ upstream = NoCatalogResp
    /\ listings = <<>>

NoWorksRequest == [sent |-> FALSE, arg |-> <<>>, url |-> <<>>]

NoWorksResponse == [status |-> 0, decodes |-> FALSE, works |-> "absent", items |-> <<>>]

\* SUIDClient(username, password): no token, a session of its own; no
\* request sent, the dashboard session without cookies.
InitSuid ==
    /\ suid_token = None
    /\ suid_jar = {}
    /\ dash_jar = {}
    /\ wire = {}
    /\ actor = "none"
    /\ worksReq = NoWorksRequest
    /\ worksResp = NoWorksResponse
    /\ worksResult = <<>>

\* A snapshot without photos, and a result not yet there.
NoSnapshot == [photos |-> <<>>, basePhotoUrl |-> <<>>, uin |-> <<>>]

NoStatus == [class |-> "none", yesterday |-> FALSE]

\* No photo check is running.
IdlePhoto ==
    /\ ppc = "off"
    /\ photoToday = [y |-> 2024, m |-> 1, d |-> 3]
    /\ snapshot = NoSnapshot
    /\ last_two_dates = <<>>
    /\ hashes_date1 = {}
    /\ photoQueue = <<>>
    /\ fetchLog = <<>>
    /\ photoStatus = NoStatus

NextAuth ==
    \/ NewClient /\ UNCHANGED nonAuthVars
    \/ AuthorizeNetworkError /\ UNCHANGED nonAuthVars
    \/ \E u \in FinalUrls, c \in CookieVals : Authorize(u, c) /\ UNCHANGED nonAuthVars
    \/ \E caller \in CallerHeaders : Get(caller) /\ UNCHANGED nonAuthVars
    \/ \E caller \in CallerHeaders : Post(caller) /\ UNCHANGED nonAuthVars
    \/ \E argsGiven \in BOOLEAN, resp \in PhotoResponses :
            GetPhotoHash(argsGiven, resp) /\ UNCHANGED nonAuthVars

InitSpecAuth == InitAuth /\ IdleRun /\ IdleEtapi /\ IdleRecon /\ IdlePhoto /\ IdleCatalog /\ InitSuid

SpecAuth == InitSpecAuth /\ [][NextAuth]_vars

-----------------------------------------------------------------------------
(* Claims about the session *)

\* C1: after authorize() has succeeded, every request the client sends
\* through get, through post and as the photo-content fetch of get_photo_hash
\* carries Authorization: Bearer <token>, and carries X-XSRF-TOKEN whenever
\* the XSRF-TOKEN cookie was present (with a value) at authorization.
C1_TokensOnEveryRequest ==
    (lastAuth.result = "ok" /\ lastReq.via \in {"get", "post", "photo"}) =>
        /\ lastReq.headers.Authorization = Bearer(token)
        /\ (Truthy(lastAuth.cookie) => lastReq.headers.XXsrfToken = xsrf_token)

\* C2: a client that has never completed a successful authorize() holds no
\* bearer token and no CSRF token, and a request it sends through get or post
\* carries Authorization and X-XSRF-TOKEN only as the caller supplied them; a
\* failed authorize() leaves token and xsrf_token as they were.
C2_NoTokensBeforeAuthorization ==
    /\ [](~everAuthorized =>
            /\ token = None
            /\ xsrf_token = None
            /\ (lastReq.via \in {"get", "post"} =>
                    /\ lastReq.headers.Authorization = lastReq.caller.Authorization
                    /\ lastReq.headers.XXsrfToken = lastReq.caller.XXsrfToken))
    /\ [][(lastAuth' # lastAuth /\ lastAuth'.result \notin {"ok", "none"}) =>
            (token' = token /\ xsrf_token' = xsrf_token)]_vars

\* A request sent through get or post after a failed authorize().
C2_Witness ==
    /\ lastAuth.result \in {ErrAuthFailed, ErrTokenMissing, "network_error"}
    /\ lastReq.via \in {"get", "post"}
    /\ lastReq.headers.Authorization = None

\* C3: authorize() fails with the authentication-failed error for every
\* final redirect URL whose host is not dashboard-stroi.mos.ru.
C3_ForeignHostFails ==
    (lastAuth.hasUrl /\ ~lastAuth.hostIsTarget) => lastAuth.result = ErrAuthFailed

\* C4: with the final URL on the target domain, authorize() fails with the
\* token-missing error and leaves the token unset when there is no non-empty
\* token parameter, and otherwise stores the parameter's percent-decoded
\* value as the token.
C4_TokenFromUrl ==
    (lastAuth.hasUrl /\ lastAuth.hostIsTarget) =>
        IF lastAuth.rawToken = None
        THEN lastAuth.result = ErrTokenMissing /\ token = None
        ELSE lastAuth.result = "ok" /\ token = Unquote(lastAuth.rawToken)

-----------------------------------------------------------------------------
(* The entry points *)

\* Largest number of objects the catalog returns.
NumObjects == 2

\* plan_fact_parser: max_attempts
MaxAttempts == 3

Entries == {"cameras", "plan_fact", "check_photos", "control_points"}

\* How an HTTP call can end: a 200 with a JSON body, another status, a 200
\* whose body is not JSON, or an exception of the HTTP library.
RespKinds == {"ok", "non200", "badjson", "neterr"}

\* 1..n as a list
Ids(n) == [i \in 1..n |-> i]

\* Where an exception that no function catches ends the run: plan_fact_parser
\* has no try around its run, the other scripts print the exception.
Uncaught(e) == IF e = "plan_fact" THEN "crashed" ELSE "aborted"

\* The state after construction of the client, for each script.
InitRun ==
    /\ entry \in Entries
    /\ pc = "authorize"
    /\ attempt = 1
    /\ authResult = "none"
    /\ todo = <<>>
    /\ results = <<>>
    /\ failedFetch = {}
    /\ netErr = FALSE
    /\ catalogReqs = 0
    /\ objectReqs = 0
    /\ fileWritten = FALSE

\* Where the run goes after dashboard_client.authorize() ended with ok.
AfterAuthorize(e, ok, att) ==
    CASE e = "cameras"        -> "catalog"
      [] e = "plan_fact"      -> IF ok THEN "catalog"
                                 ELSE IF att < MaxAttempts THEN "authorize" ELSE "crashed"
      [] e = "check_photos"   -> IF ok THEN "catalog" ELSE "aborted"
      [] OTHER                -> IF ok THEN "suid_authorize" ELSE "aborted"

\* dashboard_client.authorize() in __main__, with what follows its outcome.
RunAuthorize(ok) ==
    /\ pc = "authorize"
    /\ authResult' = IF ok THEN "ok" ELSE "failed"
    /\ pc' = AfterAuthorize(entry, ok, attempt)
    /\ attempt' = IF entry = "plan_fact" /\ ~ok /\ attempt < MaxAttempts
                  THEN attempt + 1 ELSE attempt
    /\ UNCHANGED <<entry, todo, results, failedFetch, netErr, catalogReqs, objectReqs,
                   fileWritten>>

\* control_points_parser: suid_client.authorize()
RunSuidAuthorize(ok) ==
    /\ pc = "suid_authorize"
    /\ pc' = IF ok THEN "catalog" ELSE "aborted"
    /\ UNCHANGED <<entry, attempt, authResult, todo, results, failedFetch, netErr,
                   catalogReqs, objectReqs, fileWritten>>

\* Catalog requests a script sends before its loop: cameras and
\* control_points_parser list the catalog twice.
CatalogCalls(e) == IF e \in {"cameras", "control_points"} THEN 2 ELSE 1

\* SelectSeq(ids, in allow)
RECURSIVE Filter(_, _)
Filter(ids, allow) ==
    IF ids = <<>> THEN <<>>
    ELSE IF ids[1] \in allow THEN <<ids[1]>> \o Filter(Tail(ids), allow)
    ELSE Filter(Tail(ids), allow)

\* The catalog listing: get_catalog_objects returns [] for a non-200 and
\* lets the exception of response.json() or of the HTTP call through.
\* check_photos then keeps the objects of yesterday_photo_objects.xlsx
\* (allow); with no object at all its dataframe has no object_id column.
RunCatalog(resp, n, allow) ==
    LET listed == IF resp = "ok" THEN Ids(n) ELSE <<>>
        raised == resp \in {"badjson", "neterr"}
                  \/ (entry = "check_photos" /\ listed = <<>>)
    IN
    /\ pc = "catalog"
    /\ catalogReqs' = catalogReqs + CatalogCalls(entry)
    /\ netErr' = (netErr \/ resp = "neterr")
    /\ pc' = IF raised THEN Uncaught(entry) ELSE "objects"
    /\ todo' = IF raised THEN <<>>
               ELSE IF entry = "check_photos" THEN Filter(listed, allow)
               ELSE listed
    /\ UNCHANGED <<entry, attempt, authResult, results, failedFetch, objectReqs,
                   fileWritten>>

\* What the loop body records for one object, or "raise" when it raises.
\*   cameras          get_dashboard_data: False for every failure
\*   plan_fact        get_dashboard_data returns None for a failure and
\*                    extract_rows(None) raises AttributeError
\*   check_photos     get_photo_status: a non-200 is "no photos"; for an
\*                    undecodable body the except branch reads the unassigned
\*                    local yesterday and raises UnboundLocalError
\*   control_points   collect_etapi_data skips the object after its retries
ObjectOutcome(e, resp) ==
    CASE resp = "neterr" -> "raise"
      [] resp = "ok"     -> "data"
      [] e = "cameras"   -> "no_data"
      [] e = "plan_fact" -> "raise"
      [] e = "check_photos" -> IF resp = "non200" THEN "no_data" ELSE "raise"
      [] OTHER           -> "no_data"

\* One pass of the per-object loop.
RunObject(resp) ==
    LET obj == Head(todo)
        out == ObjectOutcome(entry, resp)
    IN
    /\ pc = "objects"
    /\ todo # <<>>
    /\ objectReqs' = objectReqs + 1
    /\ netErr' = (netErr \/ resp = "neterr")
    /\ failedFetch' = IF resp \in {"non200", "badjson"} THEN failedFetch \cup {obj}
                      ELSE failedFetch
    /\ IF out = "raise"
       THEN /\ pc' = Uncaught(entry)
            /\ UNCHANGED <<todo, results>>
       ELSE /\ pc' = pc
            /\ todo' = Tail(todo)
            /\ results' = Append(results, [id |-> obj, outcome |-> out])
    /\ UNCHANGED <<entry, attempt, authResult, catalogReqs, fileWritten>>

\* The export after the loop. In control_points_parser the reconciliation
\* stands between the loop and the export and may raise (see SpecRecon).
RunExport(reconciled) ==
    /\ pc = "objects"
    /\ todo = <<>>
    /\ IF entry = "control_points" /\ ~reconciled
       THEN pc' = "aborted" /\ fileWritten' = fileWritten
       ELSE pc' = "completed" /\ fileWritten' = TRUE
    /\ UNCHANGED <<entry, attempt, authResult, todo, results, failedFetch, netErr,
                   catalogReqs, objectReqs>>

NextRun ==
    \/ \E ok \in BOOLEAN : RunAuthorize(ok) /\ UNCHANGED nonRunVars
    \/ \E ok \in BOOLEAN : RunSuidAuthorize(ok) /\ UNCHANGED nonRunVars
    \/ \E resp \in RespKinds, n \in 0..NumObjects, allow \in SUBSET (1..NumObjects) :
            RunCatalog(resp, n, allow) /\ UNCHANGED nonRunVars
    \/ \E resp \in RespKinds : RunObject(resp) /\ UNCHANGED nonRunVars
    \/ \E reconciled \in BOOLEAN : RunExport(reconciled) /\ UNCHANGED nonRunVars

\* A script starts with a client that has just been constructed.
InitSpecRun == InitAuth /\ InitRun /\ IdleEtapi /\ IdleRecon /\ IdlePhoto /\ IdleCatalog /\ InitSuid

SpecRun == InitSpecRun /\ [][NextRun]_vars

\* The run has ended, normally or not.
RunEnded == pc \in {"completed", "aborted", "crashed"}

\* Dashboard authorization has failed and the script asks for no other login.
AuthorizationFailed == authResult = "failed" /\ pc # "authorize"

\* C5: in every entry point, when dashboard authorization fails the run
\* stops there: no catalog or per-object request is sent afterwards and no
\* export file is written.
C5_AuthFailureStopsRun ==
    AuthorizationFailed => (catalogReqs = 0 /\ objectReqs = 0 /\ ~fileWritten)

\* C6: in the photo-check run and the plan/fact run, when the dashboard fetch
\* of one object fails (non-200 or undecodable body), that object is recorded
\* as having no data, every remaining object is still processed and the
\* export file is still written.
C6_ObjectFailureDoesNotAbort ==
    (entry \in {"check_photos", "plan_fact"} /\ RunEnded /\ failedFetch # {} /\ ~netErr) =>
        /\ todo = <<>>
        /\ \A i \in 1..Len(results) :
               results[i].id \in failedFetch => results[i].outcome = "no_data"
        /\ fileWritten

-----------------------------------------------------------------------------
(* collect_etapi_data *)

\* Largest number of objects handed to collect_etapi_data.
NumEtapiObjects == 2

\* max_retries
MaxRetries == 3

\* time.sleep(0.7) at the end of the loop body, in tenths of a second.
ThrottleTenths == 7

\* The backoff counted from the attempt index itself: 0 s, 2 s, 4 s.
WaitTimeFromZero(att) == att * 2 * 10

\* wait_time = (attempt + 1) * 2 seconds, in tenths of a second.
WaitTime(att) == (att + 1) * 2 * 10

\* Control points of the upstream data: name, plan_finish_date and
\* fact_finish_date; the other fields are copied to the row in the same way.
PointA == [name |-> <<"a">>, plan_finish_date |-> <<"2024", "01", "02">>,
           fact_finish_date |-> None]

PointB == [name |-> <<"b">>, plan_finish_date |-> <<"2024", "01", "01">>,
           fact_finish_date |-> <<"2024", "01", "01">>]

\* What get_etapi_data returned: Python's None, the empty dict {}, or a
\* non-empty dict with its control_points.in_progress.data and
\* control_points.complete.data lists ([] where a key is missing).
NoneBody == [kind |-> "None", in_progress |-> <<>>, complete |-> <<>>]

EmptyDict == [kind |-> "empty", in_progress |-> <<>>, complete |-> <<>>]

EtapiBodies ==
    {EmptyDict}
    \cup [kind : {"dict"}, in_progress : {<<>>, <<PointA>>, <<PointA, PointB>>},
          complete : {<<>>, <<PointB>>}]

\* Responses of GET /api/etapi/{id}.
EtapiResponses ==
    {[kind |-> k, body |-> NoneBody] : k \in {"neterr", "non200", "badjson"}}
    \cup {[kind |-> "ok", body |-> b] : b \in EtapiBodies}

\* get_etapi_data once the response is there: None for a non-200 and for an
\* undecodable body, the decoded body otherwise.
GetEtapiData(resp) == IF resp.kind = "ok" THEN resp.body ELSE NoneBody

\* The sentinel of get_manager_name, "Нет данных".
NoData == <<"Net dannykh">>

\* Responses of GET /api/dashboard/{id} as get_manager_name reads them:
\* pm says whether object.project_manager is absent, null or a dict, name
\* whether that dict's name is absent, null or a string.
ManagerResponses ==
    {[kind |-> k, pm |-> "absent", name |-> None] : k \in {"neterr", "non200", "badjson"}}
    \cup {[kind |-> "ok", pm |-> "absent", name |-> None],
          [kind |-> "ok", pm |-> "null", name |-> None],
          [kind |-> "ok", pm |-> "dict", name |-> <<"absent">>],
          [kind |-> "ok", pm |-> "dict", name |-> None],
          [kind |-> "ok", pm |-> "dict", name |-> <<"Ivanov">>]}

\* get_manager_name once the response is there.
\* data.get("object", {}).get("project_manager", {}).get("name", sentinel):
\* a null project_manager raises AttributeError inside the try (None), a
\* null name is returned as it is.
GetManagerName(resp) ==
    IF resp.kind # "ok" THEN None
    ELSE IF resp.pm = "absent" THEN NoData
    ELSE IF resp.pm = "null" THEN None
    ELSE IF resp.name = <<"absent">> THEN NoData
    ELSE resp.name

\* The suid_ksg_url values of the dashboard snapshot.
SuidUrl == <<"https://suid.mos.ru/ksg/", "u1">>

\* Responses of GET /api/dashboard/{id} as get_dashboard_data reads them.
DashboardResponses ==
    {[kind |-> k, url |-> None] : k \in {"neterr", "non200", "badjson"}}
    \cup {[kind |-> "ok", url |-> u] : u \in {None, SuidUrl}}

\* get_dashboard_data once the response is there.
GetDashboardData(resp) == IF resp.kind = "ok" THEN resp.url ELSE None

\* `not etapi`
Falsy(e) == e.kind \in {"None", "empty"}

\* The row of an object without control points.
NoPointsRow(oid, manager) ==
    [object_id |-> oid, status |-> "no_control_points", name |-> None,
     plan_finish_date |-> None, fact_finish_date |-> None,
     project_manager |-> manager, suid_url |-> None]

\* The row of one control point.
PointRow(oid, st, point, manager, url) ==
    [object_id |-> oid, status |-> st, name |-> point.name,
     plan_finish_date |-> point.plan_finish_date,
     fact_finish_date |-> point.fact_finish_date,
     project_manager |-> manager, suid_url |-> url]

\* The rows of the in_progress points, then those of the complete points.
PointRows(oid, e, manager, url) ==
    [i \in 1..Len(e.in_progress) |-> PointRow(oid, "in_progress", e.in_progress[i], manager, url)]
    \o [i \in 1..Len(e.complete) |-> PointRow(oid, "complete", e.complete[i], manager, url)]

\* dict get/set of the cache, kept as a list of pairs
CashGet(c, oid) == (CHOOSE i \in 1..Len(c) : c[i].id = oid)

InitEtapi ==
    /\ \E n \in 1..NumEtapiObjects : objects = Ids(n)
    /\ idx = 1
    /\ epc = "manager"
    /\ cash = <<>>
    /\ etAttempt = 0
    /\ etapi = NoneBody
    /\ all_data = <<>>
    /\ lastObj = 0
    /\ outcomes = <<>>
    /\ sleeps = <<>>

\* The loop moves to the next object, or collect_etapi_data returns.
NextObject ==
    /\ idx' = idx + 1
    /\ epc' = IF idx < Len(objects) THEN "manager" ELSE "done"

\* The head of the loop body: the manager name is fetched into the cache,
\* etapi is reset.
EtManager(resp) ==
    /\ epc = "manager"
    /\ lastObj' = objects[idx]
    /\ outcomes' = <<>>
    /\ sleeps' = <<>>
    /\ etAttempt' = 0
    /\ etapi' = NoneBody
    /\ IF resp.kind = "neterr"
       THEN epc' = "raised" /\ cash' = cash
       ELSE /\ epc' = "fetch"
            /\ cash' = Append(cash, [id |-> objects[idx], name |-> GetManagerName(resp)])
    /\ UNCHANGED <<objects, idx, all_data>>

\* One pass of the retry loop: for attempt in range(max_retries).
EtFetch(resp) ==
    /\ epc = "fetch"
    /\ outcomes' = Append(outcomes, resp)
    /\ IF resp.kind = "neterr"
       THEN /\ epc' = "raised"
            /\ UNCHANGED <<etapi, etAttempt, sleeps>>
       ELSE IF GetEtapiData(resp) # NoneBody
       THEN /\ etapi' = GetEtapiData(resp)
            /\ epc' = "rows"
            /\ UNCHANGED <<etAttempt, sleeps>>
       ELSE /\ etapi' = NoneBody
            /\ sleeps' = Append(sleeps, WaitTime(etAttempt))
            /\ etAttempt' = etAttempt + 1
            /\ epc' = IF etAttempt + 1 < MaxRetries THEN "fetch" ELSE "rows"
    /\ UNCHANGED <<objects, idx, cash, all_data, lastObj>>

\* The rest of the loop body, after the retry loop.
EtRows(resp) ==
    LET oid == objects[idx]
        manager == cash[CashGet(cash, oid)].name
    IN
    /\ epc = "rows"
    /\ IF Falsy(etapi)
       THEN /\ NextObject
            /\ UNCHANGED <<all_data, sleeps>>
       ELSE IF etapi.in_progress = <<>> /\ etapi.complete = <<>>
       THEN /\ all_data' = Append(all_data, NoPointsRow(oid, manager))
            /\ sleeps' = Append(sleeps, ThrottleTenths)
            /\ NextObject
       ELSE IF resp.kind = "neterr"
       THEN /\ epc' = "raised"
            /\ UNCHANGED <<idx, all_data, sleeps>>
       ELSE /\ all_data' = all_data \o PointRows(oid, etapi, manager, GetDashboardData(resp))
            /\ sleeps' = Append(sleeps, ThrottleTenths)
            /\ NextObject
    /\ UNCHANGED <<objects, cash, etAttempt, etapi, lastObj, outcomes>>

NextEtapi ==
    \/ \E resp \in ManagerResponses : EtManager(resp) /\ UNCHANGED nonEtapiVars
    \/ \E resp \in EtapiResponses : EtFetch(resp) /\ UNCHANGED nonEtapiVars
    \/ \E resp \in DashboardResponses : EtRows(resp) /\ UNCHANGED nonEtapiVars

InitSpecEtapi == InitAuth /\ IdleRun /\ InitEtapi /\ IdleRecon /\ IdlePhoto /\ IdleCatalog /\ InitSuid

SpecEtapi == InitSpecEtapi /\ [][NextEtapi]_vars

-----------------------------------------------------------------------------
(* Claims about collect_etapi_data *)

\* A control-point fetch that failed: the call raised, answered another
\* status than 200, or answered a body that is not JSON.
IsFailure(resp) == resp.kind \in {"neterr", "non200", "badjson"}

\* The rows all_data holds for object oid.
RECURSIVE RowsOfObject(_, _)
RowsOfObject(rows, oid) ==
    IF rows = <<>> THEN <<>>
    ELSE IF rows[1].object_id = oid THEN <<rows[1]>> \o RowsOfObject(Tail(rows), oid)
    ELSE RowsOfObject(Tail(rows), oid)

\* The loop body of lastObj has run to its end.
ObjectFinished == lastObj # 0 /\ epc \in {"manager", "done"}

\* Attempts 1 and 2 of lastObj failed and attempt 3 succeeded.
FailedTwiceThenOk ==
    /\ Len(outcomes) = 3
    /\ IsFailure(outcomes[1])
    /\ IsFailure(outcomes[2])
    /\ outcomes[3].kind = "ok"

\* C7: the control-point fetch of one object is attempted at most 3 times;
\* when attempts 1 and 2 fail and attempt 3 succeeds, the third attempt's
\* result is the one used for the object's rows, the backoff delays are
\* exactly 2 s then 4 s, and no backoff delay follows the success.
C7_RetryThenSuccess ==
    /\ Len(outcomes) <= 3
    /\ FailedTwiceThenOk =>
        LET body == outcomes[3].body
            points == body.in_progress \o body.complete
            rows == RowsOfObject(all_data, lastObj)
        IN
        /\ etapi = body
        /\ Len(sleeps) >= 2
        /\ SubSeq(sleeps, 1, 2) = <<20, 40>>
        /\ \A i \in 3..Len(sleeps) : sleeps[i] = ThrottleTenths
        /\ (ObjectFinished /\ points # <<>>) =>
             /\ Len(rows) = Len(points)
             /\ \A i \in 1..Len(points) :
                    /\ rows[i].name = points[i].name
                    /\ rows[i].plan_finish_date = points[i].plan_finish_date
                    /\ rows[i].fact_finish_date = points[i].fact_finish_date
                    /\ rows[i].status = IF i <= Len(body.in_progress)
                                        THEN "in_progress" ELSE "complete"

\* Two failures, a success with control points, and the object's rows built.
C7_Witness ==
    /\ FailedTwiceThenOk
    /\ ObjectFinished
    /\ outcomes[3].body.in_progress = <<PointA, PointB>>
    /\ Len(RowsOfObject(all_data, lastObj)) >= 2
    /\ sleeps = <<20, 40, ThrottleTenths>>

\* C8: a control-point fetch that fails in any way (an exception of the HTTP
\* call, a non-200 status, an undecodable body) counts as a failed attempt
\* and is retried; after 3 failed attempts the object contributes no rows
\* and collect_etapi_data goes on to the next object.
C8_EveryFailureRetried ==
    /\ (outcomes # <<>> /\ Len(outcomes) < MaxRetries /\ IsFailure(outcomes[Len(outcomes)]))
          => epc = "fetch"
    /\ (Len(outcomes) = MaxRetries /\ \A i \in 1..MaxRetries : IsFailure(outcomes[i]))
          => /\ epc \in {"rows", "manager", "done"}
             /\ RowsOfObject(all_data, lastObj) = <<>>

\* ---------------------------------------------------------------------------
\* control_points_parser.__main__ after collect_etapi_data: the overdue flag,
\* the comparison with the work ledger (SUID), the supplementary control
\* points and the export.
\* ---------------------------------------------------------------------------

\* pandas' NaT, the result of a date that could not be parsed; the parsed
\* dates are day numbers, all of them positive.
NaT == 0 - 1

\* int() of the digit groups that occur in the model's date texts.
Num(g) ==
    CASE g = "2023" -> 2023
      [] g = "2024" -> 2024
      [] g = "01"   -> 1
      [] g = "02"   -> 2
      [] g = "03"   -> 3
      [] g = "13"   -> 13
      [] g = "15"   -> 15
      [] g = "30"   -> 30
      [] g = "31"   -> 31
      [] OTHER      -> 0

\* The number of days of month m in year y.
DaysIn(y, m) ==
    IF m = 2 THEN (IF y % 4 = 0 /\ (y % 100 # 0 \/ y % 400 = 0) THEN 29 ELSE 28)
    ELSE IF m \in {4, 6, 9, 11} THEN 30 ELSE 31

\* A day number that orders dates as the calendar does.
Ordinal(y, m, d) == (y * 12 + (m - 1)) * 31 + d

\* pd.to_datetime(col, format="%Y-%m-%d", errors="coerce").dt.date on one
\* value: None, a text that is not year-month-day, or a day that does not
\* exist give NaT.
ToDate(txt) ==
    IF txt = None \/ Len(txt) # 3 THEN NaT
    ELSE LET y == Num(txt[1])
             m == Num(txt[2])
             d == Num(txt[3])
         IN IF y > 0 /\ m \in 1..12 /\ d \in 1..DaysIn(y, m)
            THEN Ordinal(y, m, d) ELSE NaT

\* pd.to_datetime(col, format="%d.%m.%Y", errors="coerce").dt.date on one
\* value.
ToDirectiveDate(txt) ==
    IF txt = None \/ Len(txt) # 3 THEN NaT
    ELSE LET d == Num(txt[1])
             m == Num(txt[2])
             y == Num(txt[3])
         IN IF y > 0 /\ m \in 1..12 /\ d \in 1..DaysIn(y, m)
            THEN Ordinal(y, m, d) ELSE NaT

\* == of two object columns, element by element: a null on either side gives
\* False.
DateEq(a, b) == a # NaT /\ b # NaT /\ a = b

\* The variant in which a null sorts before every date.
DateLeNullFirst(a, b) == a <= b

\* <= of two object columns, element by element: a null on either side gives
\* False.
DateLe(a, b) == a # NaT /\ b # NaT /\ a <= b

\* The variant that compares with < instead of <=.
OverdueStrictlyBefore(status, plan, fact, day) ==
    IF status = "no_control_points" THEN TRUE
    ELSE IF DateEq(plan, fact) THEN FALSE
    ELSE plan # NaT /\ day # NaT /\ plan < day

\* np.where(status == "no_control_points", True,
\*          np.where(plan == fact, False, plan <= today)) on one row
IsExceeded(status, plan, fact, day) ==
    IF status = "no_control_points" THEN TRUE
    ELSE IF DateEq(plan, fact) THEN FALSE
    ELSE DateLe(plan, day)

\* A ledger address of the exon kind and `"exonproject" in str(x)`.
ExonUrl == <<"https://", "exonproject", ".ru/p1">>

ContainsExon(u) == \E i \in 1..Len(u) : u[i] = "exonproject"

\* "объект exon"
ExonMark == <<"obekt exon">>

\* "РАБОТА НЕ НАЙДЕНА"
NotFoundMark == <<"RABOTA NE NAIDENA">>

\* "дополнительная точка"
AdditionalMark == <<"dopolnitelnaya tochka">>

\* "не найдена в СУИД"
NotInSuidMark == <<"ne naidena v SUID">>

\* lambda x: "объект exon" if pd.notna(x) and "exonproject" in str(x) else None
Comparsion(u) == IF u # None /\ ContainsExon(u) THEN ExonMark ELSE None

\* str.lower() on the characters of the model.
LowerChar(c) == IF c = "A" THEN "a" ELSE c

Lower(n) == [i \in 1..Len(n) |-> LowerChar(n[i])]

\* str.strip(): the leading and the trailing white space removed.
RECURSIVE LStrip(_)
LStrip(n) == IF n # <<>> /\ Head(n) = " " THEN LStrip(Tail(n)) ELSE n

RECURSIVE RStrip(_)
RStrip(n) ==
    IF n # <<>> /\ n[Len(n)] = " " THEN RStrip(SubSeq(n, 1, Len(n) - 1)) ELSE n

Strip(n) == LStrip(RStrip(n))

\* A row of df as collect_etapi_data produced it, with the day of its
\* collection.
CollectedRow(oid, st, nm, plan, fact, day, url) ==
    [object_id |-> oid, status |-> st, name |-> nm, plan_finish_date |-> plan,
     fact_finish_date |-> fact, today |-> day, suid_url |-> url]

\* The row of df_new made from a row of df: the dates parsed, the overdue
\* flag, the exon mark. The suid_* columns are filled by the matching.
FlaggedRow(r) ==
    [object_id |-> r.object_id, status |-> r.status, name |-> r.name,
     plan_finish_date |-> ToDate(r.plan_finish_date),
     fact_finish_date |-> ToDate(r.fact_finish_date),
     today |-> r.today, suid_url |-> r.suid_url,
     planned_commissioning_directive_date |->
         ToDirectiveDate(directive_date_map[r.object_id]),
     is_exceeded |-> IsExceeded(r.status, ToDate(r.plan_finish_date),
                                ToDate(r.fact_finish_date), r.today),
     control_point_comparsion |-> Comparsion(r.suid_url),
     suid_start |-> NaT, suid_end |-> NaT, fact_end_date_suid |-> None,
     is_dates_equal |-> FALSE]

\* The variant that takes the rows whether overdue or not.
InToProcessAnyRow(r) ==
    /\ r.control_point_comparsion = None
    /\ r.status # "no_control_points"

\* The mask of to_process.
InToProcess(r) ==
    /\ r.control_point_comparsion = None
    /\ r.status # "no_control_points"
    /\ r.is_exceeded = TRUE

\* The mask of objects_for_additional.
ForAdditional(r) == r.suid_url # None /\ ~ContainsExon(r.suid_url)

\* drop_duplicates("object_id"): the first row of every object, in order.
RECURSIVE DropDuplicates(_, _)
DropDuplicates(rows, seen) ==
    IF rows = <<>> THEN <<>>
    ELSE IF Head(rows).object_id \in seen THEN DropDuplicates(Tail(rows), seen)
    ELSE <<Head(rows)>> \o DropDuplicates(Tail(rows), seen \cup {Head(rows).object_id})

\* A work of the ledger.
Work(nm, start, finish, fact) ==
    [name |-> nm, start_date |-> start, end_date |-> finish, fact_end_date |-> fact]

\* What the ledger can answer to POST .../{uuid}/all.
WorksKinds == {"ok", "non200", "badjson", "neterr"}

\* SUIDClient.get_works once the response is there: [] unless the status is
\* 200 and the body decodes.
GetWorks(works, kind) == IF kind = "ok" THEN works ELSE <<>>

\* d[key] = value on a dict kept as a list of entries in insertion order.
DictPut(d, e) ==
    IF \E i \in 1..Len(d) : d[i].key = e.key
    THEN [i \in 1..Len(d) |-> IF d[i].key = e.key THEN e ELSE d[i]]
    ELSE Append(d, e)

HasKey(d, k) == \E i \in 1..Len(d) : d[i].key = k

DictGet(d, k) == d[CHOOSE i \in 1..Len(d) : d[i].key = k]

\* works_dict: the works under their lowercased names, a later work
\* replacing an earlier one of the same key.
RECURSIVE WorksDict(_, _)
WorksDict(works, d) ==
    IF works = <<>> THEN d
    ELSE WorksDict(Tail(works),
                   DictPut(d, [key |-> Lower(Head(works).name), work |-> Head(works)]))

\* work["name"].lower() raises on a work without name.
NamelessWork(works) == \E i \in 1..Len(works) : works[i].name = None

\* The name work after `for work in works`: the last work, or the one
\* the loop stopped at.
AfterLoop(w, works) ==
    IF works = <<>> THEN w
    ELSE LET last == IF NamelessWork(works)
                     THEN CHOOSE i \in 1..Len(works) :
                              /\ works[i].name = None
                              /\ \A j \in 1..(i - 1) : works[j].name # None
                     ELSE Len(works)
         IN [bound |-> TRUE, fact_end_date |-> works[last].fact_end_date]

\* A row of additional_data, its dates converted as before the concat.
AdditionalRow(oid, cp, w, found, url) ==
    [object_id |-> oid, status |-> "additional_check", name |-> cp,
     suid_start |-> IF found THEN ToDate(w.start_date) ELSE NaT,
     suid_end |-> IF found THEN ToDate(w.end_date) ELSE NaT,
     fact_end_date_suid |-> w.fact_end_date, found_in_suid |-> found,
     suid_url |-> url,
     control_point_comparsion |-> IF found THEN AdditionalMark ELSE NotInSuidMark]

\* The loop over control_points_list for one object: st.rows grows by one
\* row per name, st.work is the name work, st.failed tells that a missing
\* name met an unbound work (NameError).
RECURSIVE CheckPoints(_, _, _, _, _)
CheckPoints(cps, d, oid, url, st) ==
    IF cps = <<>> \/ st.failed THEN st
    ELSE LET cp == Head(cps) IN
         IF HasKey(d, cp)
         THEN LET w == DictGet(d, cp).work IN
              CheckPoints(Tail(cps), d, oid, url,
                  [rows |-> Append(st.rows, AdditionalRow(oid, cp, w, TRUE, url)),
                   work |-> [bound |-> TRUE, fact_end_date |-> w.fact_end_date],
                   failed |-> FALSE])
         ELSE IF ~st.work.bound
         THEN [st EXCEPT !.failed = TRUE]
         ELSE CheckPoints(Tail(cps), d, oid, url,
                  [st EXCEPT !.rows = Append(st.rows,
                       AdditionalRow(oid, cp, Work(cp, None, None, st.work.fact_end_date),
                                     FALSE, url))])

\* control_points_df["points"].dropna().str.strip().str.lower().tolist()
RECURSIVE PointsList(_)
PointsList(points) ==
    IF points = <<>> THEN <<>>
    ELSE (IF Head(points) = None THEN <<>> ELSE <<Lower(Strip(Head(points)))>>)
         \o PointsList(Tail(points))

\* str.rstrip("/"): every trailing "/" removed.
RECURSIVE RStripSlash(_)
RStripSlash(u) ==
    IF u # <<>> /\ u[Len(u)] = "/" THEN RStripSlash(SubSeq(u, 1, Len(u) - 1)) ELSE u

\* The variant that splits without stripping first.
UuidUnstripped(u) == IF u[Len(u)] = "/" THEN "" ELSE u[Len(u)]

\* uuid = suid_url.rstrip("/").split("/")[-1] on the addresses of the model:
\* an atom that ends with "/", then path segments with "/" between them.
Uuid(u) == RStripSlash(u)[Len(RStripSlash(u))]

SuidUrl2 == <<"https://suid.mos.ru/ksg/", "u2", "/">>

\* The state every reconciliation starts from, whatever was collected.
ReconStart ==
    /\ df_new = <<>>
    /\ rpc = "collected"
    /\ worksTodo = <<>>
    /\ suid_works_cache = <<>>
    /\ fetched = <<>>
    /\ work = [bound |-> FALSE, fact_end_date |-> None]
    /\ control_points_list = <<>>
    /\ additional_data = <<>>
    /\ hasSuidCols = FALSE
    /\ exported = FALSE
    /\ exclFile = NoExclusionFile
    /\ final = <<>>

\* Lines 455-491: the frames, the parsed dates, is_exceeded, the exon mark
\* and to_process. An empty result gives a frame without columns, and the
\* first column access raises.
ReconFlag ==
    /\ rpc = "collected"
    /\ IF df = <<>>
       THEN /\ rpc' = "aborted"
            /\ UNCHANGED df_new
       ELSE /\ df_new' = [i \in 1..Len(df) |-> FlaggedRow(df[i])]
            /\ rpc' = IF SelectSeq(df_new', InToProcess) # <<>> THEN "suid_auth" ELSE "list"
    /\ UNCHANGED <<df, ledger, worksTodo, suid_works_cache, fetched, work, cpFile,
                   control_points_list, additional_data, hasSuidCols, exported,
                   directive_date_map, exclFile, final>>

\* Lines 494-504 and 598-609: a fresh SUIDClient authorizes, then the
\* objects of the loop that follows are listed.
ReconSuidAuthorize(ok) ==
    /\ rpc \in {"suid_auth", "add_auth"}
    /\ IF ~ok
       THEN /\ rpc' = "aborted"
            /\ UNCHANGED worksTodo
       ELSE IF rpc = "suid_auth"
       THEN /\ rpc' = "works"
            /\ worksTodo' = DropDuplicates(SelectSeq(df_new, InToProcess), {})
       ELSE /\ worksTodo' = DropDuplicates(SelectSeq(df_new, ForAdditional), {})
            /\ rpc' = IF worksTodo' = <<>> THEN "export" ELSE "additional"
    /\ UNCHANGED <<df, df_new, ledger, suid_works_cache, fetched, work, cpFile,
                   control_points_list, additional_data, hasSuidCols, exported,
                   directive_date_map, exclFile, final>>

\* Lines 509-531: one object of unique_objects; its works go to the cache.
ReconFetchWorks(kind) ==
    /\ rpc = "works"
    /\ worksTodo # <<>>
    /\ LET row == Head(worksTodo) IN
       IF row.suid_url = None \/ kind = "neterr"
       THEN /\ rpc' = "aborted"
            /\ UNCHANGED <<worksTodo, suid_works_cache, fetched, work>>
       ELSE LET works == GetWorks(ledger[Uuid(row.suid_url)], kind) IN
            /\ fetched' = Append(fetched, [pass |-> 1, id |-> row.object_id, works |-> works])
            /\ work' = AfterLoop(work, works)
            /\ IF NamelessWork(works)
               THEN /\ rpc' = "aborted"
                    /\ UNCHANGED <<worksTodo, suid_works_cache>>
               ELSE /\ suid_works_cache' =
                           DictPut(suid_works_cache,
                                   [key |-> row.object_id, dict |-> WorksDict(works, <<>>)])
                    /\ worksTodo' = Tail(worksTodo)
                    /\ UNCHANGED rpc
    /\ UNCHANGED <<df, df_new, ledger, cpFile, control_points_list, additional_data,
                   hasSuidCols, exported,
                   directive_date_map, exclFile, final>>

\* Lines 544-561 on one row of df_new.
MatchedRow(r) ==
    IF InToProcess(r) /\ HasKey(suid_works_cache, r.object_id) /\ Truthy(r.name)
    THEN LET d == DictGet(suid_works_cache, r.object_id).dict
             name_lower == Lower(r.name)
         IN IF HasKey(d, name_lower)
            THEN LET w == DictGet(d, name_lower).work IN
                 [r EXCEPT !.suid_start = ToDate(w.start_date),
                           !.suid_end = ToDate(w.end_date),
                           !.fact_end_date_suid = w.fact_end_date,
                           !.is_dates_equal = DateEq(r.plan_finish_date, ToDate(w.end_date))]
            ELSE [r EXCEPT !.control_point_comparsion = NotFoundMark]
    ELSE r

\* Lines 533-577: the suid_* columns, the matching of the to_process rows,
\* the conversion of the ledger dates, is_dates_equal.
ReconMatch ==
    /\ rpc = "works"
    /\ worksTodo = <<>>
    /\ df_new' = [i \in 1..Len(df_new) |-> MatchedRow(df_new[i])]
    /\ hasSuidCols' = TRUE
    /\ rpc' = "list"
    /\ UNCHANGED <<df, ledger, worksTodo, suid_works_cache, fetched, work, cpFile,
                   control_points_list, additional_data, exported,
                   directive_date_map, exclFile, final>>

\* Lines 580-595: the supplementary names. Only a missing file is caught
\* here; any other failure of the read ends the run.
ReconLoadList ==
    /\ rpc = "list"
    /\ CASE cpFile.kind = "missing" ->
                /\ control_points_list' = <<>>
                /\ rpc' = "export"
         [] cpFile.kind = "broken" ->
                /\ rpc' = "aborted"
                /\ UNCHANGED control_points_list
         [] OTHER ->
                /\ control_points_list' = PointsList(cpFile.points)
                /\ rpc' = IF control_points_list' = <<>> THEN "export" ELSE "add_auth"
    /\ UNCHANGED <<df, df_new, ledger, worksTodo, suid_works_cache, fetched, work, cpFile,
                   additional_data, hasSuidCols, exported,
                   directive_date_map, exclFile, final>>

\* Lines 615-696: one object of objects_for_additional; after the last one
\* the rows collected are appended to df_new, which brings the suid_*
\* columns if there is any row.
ReconAdditional(kind) ==
    /\ rpc = "additional"
    /\ worksTodo # <<>>
    /\ LET row == Head(worksTodo)
           works == GetWorks(ledger[Uuid(row.suid_url)], kind)
           st == CheckPoints(control_points_list, WorksDict(works, <<>>), row.object_id,
                             row.suid_url,
                             [rows |-> additional_data, work |-> work, failed |-> FALSE])
       IN IF kind = "neterr"
          THEN /\ rpc' = "aborted"
               /\ UNCHANGED <<worksTodo, fetched, work, additional_data, hasSuidCols>>
          ELSE /\ fetched' = Append(fetched, [pass |-> 2, id |-> row.object_id, works |-> works])
               /\ IF NamelessWork(works)
                  THEN /\ rpc' = "aborted"
                       /\ UNCHANGED <<worksTodo, work, additional_data, hasSuidCols>>
                  ELSE /\ work' = st.work
                       /\ additional_data' = st.rows
                       /\ IF st.failed
                          THEN /\ rpc' = "aborted"
                               /\ UNCHANGED <<worksTodo, hasSuidCols>>
                          ELSE /\ worksTodo' = Tail(worksTodo)
                               /\ rpc' = IF worksTodo' = <<>> THEN "export" ELSE "additional"
                               /\ hasSuidCols' = (hasSuidCols \/ (worksTodo' = <<>> /\ st.rows # <<>>))
    /\ UNCHANGED <<df, df_new, ledger, suid_works_cache, cpFile, control_points_list, exported,
                   directive_date_map, exclFile, final>>

\* df['plan_finish_date'] == df['planned_commissioning_directive_date'] on
\* the rows of df, where both columns hold the texts as they were collected:
\* element by element, False for a null on either side.
TextEq(a, b) == a # None /\ b # None /\ a = b

\* The column is assigned to df_new by index: row i of df_new gets the value
\* of row i of df, the rows appended by the concat get NaN.
IsDirectiveEqual(i) ==
    IF i <= Len(df)
    THEN (IF TextEq(df[i].plan_finish_date, directive_date_map[df[i].object_id])
          THEN "True" ELSE "False")
    ELSE "NaN"

\* df_new in front of mark_column_as: the rows of the working copy followed
\* by the supplementary rows, with the cells the export steps work on.
FrameBeforeMark ==
    [i \in 1..(Len(df_new) + Len(additional_data)) |->
        LET r == IF i <= Len(df_new) THEN df_new[i] ELSE additional_data[i - Len(df_new)]
        IN [object_id |-> r.object_id, status |-> r.status, name |-> r.name,
            is_directive_equal |-> IsDirectiveEqual(i),
            exclude_from_check |-> "absent"]]

\* The variant that takes the excluded rows out of the frame.
MarkColumnAsDropping(file, frame) ==
    IF file.kind # "ok" THEN frame
    ELSE LET Kept(r) == ~InSeq(r.object_id, file.ids) IN SelectSeq(frame, Kept)

\* mark_column_as(objects, "id", "object_id", dataframe, "exclude_from_check",
\* True): nothing when the file cannot be read; else the column is set on the
\* rows whose object_id is in the list, and is NaN on the others.
MarkColumnAs(file, frame) ==
    IF file.kind # "ok" THEN frame
    ELSE [i \in 1..Len(frame) |->
             [frame[i] EXCEPT !.exclude_from_check =
                  IF InSeq(frame[i].object_id, file.ids) THEN "True" ELSE "NaN"]]

\* Lines 698-719: the last columns, the exclusion mark and to_excel.
\* df_new["fact_end_date_suid"] raises when neither the matching nor the
\* supplementary rows made the column.
ReconExport(file) ==
    /\ rpc = "export"
    /\ IF hasSuidCols
       THEN /\ exclFile' = file
            /\ final' = MarkColumnAs(file, FrameBeforeMark)
            /\ exported' = TRUE
            /\ rpc' = "exported"
       ELSE /\ rpc' = "aborted"
            /\ UNCHANGED <<exported, exclFile, final>>
    /\ UNCHANGED <<df, df_new, ledger, worksTodo, suid_works_cache, fetched, work, cpFile,
                   control_points_list, additional_data, hasSuidCols, directive_date_map>>

\* excluded_objects.xlsx: missing, unreadable (or without the column id), or
\* a list of identifiers.
ExclusionFiles ==
    {[kind |-> "missing", ids |-> <<>>], [kind |-> "broken", ids |-> <<>>]}
    \cup {[kind |-> "ok", ids |-> l] : l \in {<<1>>, <<2, 7>>}}

NextRecon ==
    \/ ReconFlag /\ UNCHANGED nonReconVars
    \/ \E ok \in BOOLEAN : ReconSuidAuthorize(ok) /\ UNCHANGED nonReconVars
    \/ \E kind \in WorksKinds : ReconFetchWorks(kind) /\ UNCHANGED nonReconVars
    \/ ReconMatch /\ UNCHANGED nonReconVars
    \/ ReconLoadList /\ UNCHANGED nonReconVars
    \/ \E kind \in WorksKinds : ReconAdditional(kind) /\ UNCHANGED nonReconVars
    \/ \E file \in ExclusionFiles : ReconExport(file) /\ UNCHANGED nonReconVars

\* ---- the runs checked for the overdue flag: the dates of one row vary

\* The number of further rows beside the first one.
MaxCompanions == 1

\* Date texts as the dashboard may send them: absent, not a date, and
\* year-month-day texts, one of them (30 February) not a day of the calendar.
ReconDateTexts ==
    {None, <<"bad">>} \cup {<<"2024", m, d>> : m \in {"01", "02"}, d \in {"15", "30"}}

\* datetime.now().date() when the row was collected.
TodayVals == {Ordinal(2024, 1, 30), Ordinal(2024, 2, 15)}

\* The rows of object 1: none (the object was skipped), the row of an object
\* without control points, or one control point.
FirstRows ==
    {<<>>}
    \cup {<<CollectedRow(1, "no_control_points", None, None, None, day, None)>> :
             day \in TodayVals}
    \cup {<<CollectedRow(1, st, <<"a">>, plan, fact, day, url)>> :
             st \in {"in_progress", "complete"}, plan \in ReconDateTexts,
             fact \in ReconDateTexts, day \in TodayVals,
             url \in {None, SuidUrl, ExonUrl}}

\* Rows of object 2.
CompanionRows ==
    {CollectedRow(2, "no_control_points", None, None, None, Ordinal(2024, 1, 30), None),
     CollectedRow(2, "in_progress", <<"A">>, <<"2024", "01", "15">>, None,
                  Ordinal(2024, 1, 30), SuidUrl2)}

WorkA == Work(<<"a">>, <<"2024", "01", "01">>, <<"2024", "01", "15">>, None)

WorkUpperA == Work(<<"A">>, None, <<"2024", "02", "15">>, <<"2024", "02", "15">>)

\* The works the ledger holds for an object of these runs.
LedgerWorks == {<<>>, <<WorkA>>, <<WorkUpperA>>, <<WorkUpperA, WorkA>>}

\* planned_commissioning_directive_date of the catalog objects: absent, or
\* 15.01.2024.
DirectiveTexts == {None, <<"15", "01", "2024">>}

\* control_points.xlsx in these runs.
ControlPointFiles ==
    {[kind |-> "missing", points |-> <<>>],
     [kind |-> "broken", points |-> <<>>],
     [kind |-> "ok", points |-> <<None, <<" ", "A">>, <<"b">>>>]}

InitSpecRecon ==
    /\ InitAuth /\ IdleRun /\ IdleEtapi /\ IdlePhoto /\ IdleCatalog /\ InitSuid
    /\ \E first \in FirstRows, others \in SeqsUpTo(CompanionRows, MaxCompanions) :
           df = first \o others
    /\ \E ws \in LedgerWorks : ledger = [u \in {"u1", "u2"} |-> IF u = "u1" THEN ws ELSE <<WorkA>>]
    /\ cpFile \in ControlPointFiles
    /\ \E d \in DirectiveTexts : directive_date_map = [o \in 1..2 |-> d]
    /\ ReconStart

SpecRecon == InitSpecRecon /\ [][NextRecon]_vars

MaxNameLen == 3

MaxWorkNameLen == 2

\* The characters of a name: a letter in both cases and the blank.
NameChars == {"a", "A", " "}

InitSpecMatch ==
    /\ InitAuth /\ IdleRun /\ IdleEtapi /\ IdlePhoto /\ IdleCatalog /\ InitSuid
    /\ \E nm \in SeqsUpTo(NameChars, MaxNameLen) \cup {None} :
           df = <<CollectedRow(1, "in_progress", nm, <<"2024", "01", "15">>, None,
                               Ordinal(2024, 1, 30), SuidUrl)>>
    /\ \E ws \in {<<>>} \cup {<<Work(n, None, <<"2024", "01", "15">>, None)>> :
                                 n \in SeqsUpTo(NameChars, MaxWorkNameLen) \cup {None}} :
           ledger = [u \in {"u1", "u2"} |-> IF u = "u1" THEN ws ELSE <<>>]
    /\ \E c \in SeqsUpTo(NameChars, MaxWorkNameLen) : cpFile = [kind |-> "ok", points |-> <<c>>]
    /\ directive_date_map = [o \in 1..2 |-> None]
    /\ ReconStart

SpecMatch == InitSpecMatch /\ [][NextRecon]_vars

\* Two names are the same after trimming and lowercasing.
SameName(a, b) == a # None /\ b # None /\ Lower(Strip(a)) = Lower(Strip(b))

\* The works get_works returned for an object in a pass.
WorksSeen(pass, oid) ==
    UNION {{fetched[k].works[j] : j \in 1..Len(fetched[k].works)} :
              k \in {k \in 1..Len(fetched) : fetched[k].pass = pass /\ fetched[k].id = oid}}

\* The overdue rows have been compared with the ledger.
Compared == rpc \in {"list", "add_auth", "additional", "export", "exported"} /\ fetched # <<>>

\* C10: a named overdue control point is matched exactly when the ledger
\* holds a work of the same name after trimming and lowercasing, and a
\* supplementary name is found exactly when the ledger holds such a work.
C10_ExactTrimmedMatch ==
    /\ Compared =>
          \A i \in 1..Len(df_new) :
              LET r == df_new[i] IN
              (/\ r.status # "no_control_points"
               /\ r.is_exceeded
               /\ r.control_point_comparsion # ExonMark
               /\ Truthy(r.name))
                  => ((r.control_point_comparsion = None)
                         <=> \E w \in WorksSeen(1, r.object_id) : SameName(r.name, w.name))
    /\ \A i \in 1..Len(additional_data) :
           LET a == additional_data[i] IN
           a.found_in_suid <=> \E w \in WorksSeen(2, a.object_id) : SameName(a.name, w.name)

\* ---------------------------------------------------------------------------
\* check_photos.DashboardstroiClient.get_photo_status
\* ---------------------------------------------------------------------------

\* The three classifications: 'нет фотографий', 'есть совпадение',
\* 'фото в порядке'.
NoPhotos == "net fotografii"

MatchPresent == "est sovpadenie"

PhotosOk == "foto v poryadke"

\* A key that the JSON object does not have (None is a null value).
Absent == <<"<absent>">>

\* strftime's zero-padded groups for the numbers of the model.
Digits(n) ==
    CASE n = 1    -> "01"
      [] n = 2    -> "02"
      [] n = 3    -> "03"
      [] n = 30   -> "30"
      [] n = 31   -> "31"
      [] n = 2024 -> "2024"
      [] OTHER    -> "00"

\* date.strftime("%Y-%m-%d")
Strftime(date) == <<Digits(date.y), Digits(date.m), Digits(date.d)>>

\* The variant that forgets the turn of the month.
DayBeforeSameMonth(date) == [date EXCEPT !.d = date.d - 1]

\* date - timedelta(days=1)
DayBefore(date) ==
    IF date.d > 1 THEN [date EXCEPT !.d = date.d - 1]
    ELSE IF date.m > 1
    THEN [y |-> date.y, m |-> date.m - 1, d |-> DaysIn(date.y, date.m - 1)]
    ELSE [y |-> date.y - 1, m |-> 12, d |-> 31]

\* `" " in taken_at`
HasSpace(t) == \E i \in 1..Len(t) : t[i] = " "

\* taken_at.split()[0] if " " in taken_at else taken_at
DateOnly(t) ==
    IF HasSpace(t)
    THEN SubSeq(t, 1, (CHOOSE i \in 1..Len(t) : t[i] = " " /\ \A j \in 1..(i - 1) : t[j] # " ") - 1)
    ELSE t

\* photo.get("taken_at") is truthy
HasTakenAt(p) == p.taken_at # Absent /\ Truthy(p.taken_at)

\* The set dates of lines 190-195.
DatesOf(photos) ==
    {DateOnly(photos[i].taken_at) : i \in {i \in 1..Len(photos) : HasTakenAt(photos[i])}}

\* The order of two date texts as strings: for zero-padded year-month-day
\* texts it is the order of their numbers.
DateKey(t) == Ordinal(Num(t[1]), Num(t[2]), Num(t[3]))

\* sorted(dates, reverse=True)
RECURSIVE SortedDesc(_)
SortedDesc(ds) ==
    IF ds = {} THEN <<>>
    ELSE LET top == CHOOSE x \in ds : \A z \in ds : DateKey(z) <= DateKey(x)
         IN <<top>> \o SortedDesc(ds \ {top})

\* sorted_dates[:2]
FirstTwo(q) == SubSeq(q, 1, IF Len(q) < 2 THEN Len(q) ELSE 2)

\* str.startswith
StartsWith(t, pre) == Len(pre) <= Len(t) /\ SubSeq(t, 1, Len(pre)) = pre

\* p.get("taken_at", ""): the default only replaces a missing key.
TakenAtOr(p) == IF p.taken_at = Absent THEN <<>> ELSE p.taken_at

\* p.get("taken_at", "").startswith(date) raises on a null taken_at.
NullTakenAt(photos) == \E i \in 1..Len(photos) : photos[i].taken_at = None

\* The photos of one date, in the order of the snapshot.
PhotosOfDate(photos, date) ==
    SelectSeq(photos, LAMBDA p : StartsWith(TakenAtOr(p), date))

\* The guard of get_photo_hash: all four arguments are truthy.
HashArgsGiven(p, snap, date) ==
    /\ p.photo_url # Absent /\ Truthy(p.photo_url)
    /\ Truthy(snap.basePhotoUrl)
    /\ Truthy(snap.uin)
    /\ Truthy(date)

\* The longest photos list of a snapshot.
MaxPhotos == 3

\* The capture stamps of the model: three days, one of them also with a
\* time of day.
Jan01 == <<"2024", "01", "01">>

Jan02 == <<"2024", "01", "02">>

Jan02Noon == <<"2024", "01", "02", " ", "12:00:00">>

Jan03 == <<"2024", "01", "03">>

Jan31 == <<"2024", "01", "31">>

\* The items of data["photos"]: taken_at missing, null, or a stamp;
\* photo_url a file name or null.
PhotoItems ==
    [taken_at : {Absent, None, Jan01, Jan02, Jan02Noon, Jan03, Jan31}, photo_url : {<<"a.jpg">>}]
    \cup {[taken_at |-> Jan02Noon, photo_url |-> None]}

\* The decoded bodies of GET /api/dashboard/{id}: hasPhotos tells whether
\* the key photos is there at all.
Snapshots ==
    [hasPhotos : {TRUE}, photos : SeqsUpTo(PhotoItems, MaxPhotos),
     basePhotoUrl : {<<"https://photo/">>}, uin : {<<>>, <<"uin1">>}]
    \cup {[hasPhotos |-> FALSE, photos |-> <<>>, basePhotoUrl |-> <<>>, uin |-> <<>>]}

NoBody == [hasPhotos |-> FALSE, photos |-> <<>>, basePhotoUrl |-> <<>>, uin |-> <<>>]

SnapshotResponses ==
    {[kind |-> k, body |-> NoBody] : k \in {"neterr", "non200", "badjson"}}
    \cup {[kind |-> "ok", body |-> b] : b \in Snapshots}

\* The variant that reports an empty list like a single date.
NoPhotosAsMatch == [class |-> MatchPresent, yesterday |-> FALSE]

\* ["нет фотографий", False] of lines 176 and 183
NoPhotosResult == [class |-> NoPhotos, yesterday |-> FALSE]

\* yesterday = yesterday_str in last_two_dates
YesterdayFlag(two) == InSeq(Strftime(DayBefore(photoToday)), two)

\* The loop over photos_date2 begins.
SecondLoop(photos, two) == PhotosOfDate(photos, two[2])

InitPhoto ==
    /\ ppc = "call"
    /\ photoToday \in {[y |-> 2024, m |-> 1, d |-> 3], [y |-> 2024, m |-> 2, d |-> 1]}
    /\ snapshot = NoBody
    /\ last_two_dates = <<>>
    /\ hashes_date1 = {}
    /\ photoQueue = <<>>
    /\ fetchLog = <<>>
    /\ photoStatus = NoStatus

\* Lines 173-220: the snapshot request and everything up to the first photo
\* fetch. The request is outside the try; a body that does not decode
\* reaches the except branch before yesterday is assigned.
PhotoStatusRequest(resp) ==
    /\ ppc = "call"
    /\ Get(NoHeaders)
    /\ LET photos == resp.body.photos
           two == FirstTwo(SortedDesc(DatesOf(photos)))
       IN CASE resp.kind \in {"neterr", "badjson"} ->
                   /\ ppc' = "raised"
                   /\ UNCHANGED <<snapshot, last_two_dates, photoQueue, photoStatus>>
            [] resp.kind = "non200" \/ (resp.kind = "ok" /\ photos = <<>>) ->
                   /\ ppc' = "returned"
                   /\ photoStatus' = NoPhotosResult
                   /\ snapshot' = resp.body
                   /\ UNCHANGED <<last_two_dates, photoQueue>>
            [] OTHER ->
                   /\ snapshot' = resp.body
                   /\ last_two_dates' = two
                   /\ IF Len(two) < 2
                      THEN /\ ppc' = "returned"
                           /\ photoStatus' = [class |-> MatchPresent, yesterday |-> YesterdayFlag(two)]
                           /\ UNCHANGED photoQueue
                      ELSE IF NullTakenAt(photos)
                      THEN /\ ppc' = "returned"
                           /\ photoStatus' = [class |-> NoPhotos, yesterday |-> YesterdayFlag(two)]
                           /\ UNCHANGED photoQueue
                      ELSE /\ ppc' = "date1"
                           /\ photoQueue' = PhotosOfDate(photos, two[1])
                           /\ UNCHANGED photoStatus
    /\ UNCHANGED <<photoToday, hashes_date1, fetchLog>>

\* Lines 224-245: one turn of the loop over photos_date1 or of the loop over
\* photos_date2, with its call of get_photo_hash.
PhotoHashStep(resp) ==
    /\ ppc \in {"date1", "date2"}
    /\ photoQueue # <<>>
    /\ LET photo == Head(photoQueue)
           date == IF ppc = "date1" THEN last_two_dates[1] ELSE last_two_dates[2]
       IN /\ GetPhotoHash(HashArgsGiven(photo, snapshot, date), resp)
          /\ fetchLog' = Append(fetchLog,
                 [photo |-> photo, date |-> date, hash |-> photo_hash',
                  sent |-> HashArgsGiven(photo, snapshot, date), status |-> resp.status])
          /\ IF ppc = "date1"
             THEN /\ hashes_date1' = IF Truthy(photo_hash') THEN hashes_date1 \cup {photo_hash'}
                                     ELSE hashes_date1
                  /\ IF Tail(photoQueue) = <<>>
                     THEN /\ ppc' = "date2"
                          /\ photoQueue' = SecondLoop(snapshot.photos, last_two_dates)
                     ELSE /\ photoQueue' = Tail(photoQueue)
                          /\ UNCHANGED ppc
                  /\ UNCHANGED photoStatus
             ELSE /\ UNCHANGED hashes_date1
                  /\ photoQueue' = Tail(photoQueue)
                  /\ IF Truthy(photo_hash') /\ photo_hash' \in hashes_date1
                     THEN /\ ppc' = "returned"
                          /\ photoStatus' = [class |-> MatchPresent,
                                             yesterday |-> YesterdayFlag(last_two_dates)]
                     ELSE IF Tail(photoQueue) = <<>>
                     THEN /\ ppc' = "returned"
                          /\ photoStatus' = [class |-> PhotosOk,
                                             yesterday |-> YesterdayFlag(last_two_dates)]
                     ELSE UNCHANGED <<ppc, photoStatus>>
    /\ UNCHANGED <<photoToday, snapshot, last_two_dates>>

NextPhoto ==
    \/ /\ ppc = "call"
       /\ \E resp \in SnapshotResponses : PhotoStatusRequest(resp) /\ UNCHANGED nonPhotoVars
    \/ \E resp \in PhotoResponses : PhotoHashStep(resp) /\ UNCHANGED nonPhotoVars

InitSpecPhoto == InitAuth /\ IdleRun /\ IdleEtapi /\ IdleRecon /\ InitPhoto /\ IdleCatalog /\ InitSuid

SpecPhoto == InitSpecPhoto /\ [][NextPhoto]_vars

\* The hashes get_photo_hash returned for the photos of one date.
HashesOf(date) ==
    {fetchLog[k].hash : k \in {k \in 1..Len(fetchLog) :
                                  fetchLog[k].date = date /\ fetchLog[k].hash # None}}

\* The call returned for a snapshot whose photos span two dates or more.
TwoDatesReturned ==
    ppc = "returned" /\ Cardinality(DatesOf(snapshot.photos)) >= 2

\* C11: for photos of two or more capture dates the classification is
\* 'есть совпадение' exactly when a fetched photo of the second most recent
\* date has the hash of a fetched photo of the most recent date, and
\* 'фото в порядке' otherwise.
C11_TwoDatesCompared ==
    TwoDatesReturned =>
        LET ds == SortedDesc(DatesOf(snapshot.photos)) IN
        photoStatus.class =
            IF HashesOf(ds[1]) \cap HashesOf(ds[2]) # {} THEN MatchPresent ELSE PhotosOk

\* The day before the two todays of the model, written out.
YesterdayText == IF photoToday = [y |-> 2024, m |-> 1, d |-> 3] THEN Jan02 ELSE Jan31

\* C12: for photos of fewer than two capture dates the classification is
\* 'есть совпадение' and the yesterday flag is true exactly when the only
\* date is the day before today.
C12_SingleDate ==
    (ppc = "returned" /\ snapshot.photos # <<>> /\ Cardinality(DatesOf(snapshot.photos)) < 2)
        => /\ photoStatus.class = MatchPresent
           /\ photoStatus.yesterday <=> DatesOf(snapshot.photos) = {YesterdayText}
           /\ fetchLog = <<>>

\* A single date that is the last day of the month before today's, and
\* a single date that is not yesterday.
C12_Witness ==
    /\ ppc = "returned"
    /\ photoToday.d = 1
    /\ DatesOf(snapshot.photos) = {Jan31}
    /\ Len(snapshot.photos) >= 2
    /\ photoStatus = [class |-> MatchPresent, yesterday |-> TRUE]

\* C13: for a snapshot without photos the result is ('нет фотографий',
\* False) and no photo content was fetched.
C13_NoPhotos ==
    (ppc = "returned" /\ snapshot.photos = <<>>)
        => /\ photoStatus = [class |-> NoPhotos, yesterday |-> FALSE]
           /\ fetchLog = <<>>
           /\ lastReq.via = "get"

\* The snapshot came with an empty photos list.
C13_Witness ==
    /\ ppc = "returned"
    /\ snapshot.hasPhotos /\ snapshot.photos = <<>>
    /\ photoStatus.class = NoPhotos

\* A photo fetch that was sent and failed.
FailedFetch(e) == e.sent /\ e.status # 200

\* C14: a photo whose fetch failed has no hash and adds none to the hashes
\* of its date; the loops go on after it (the call is not left by an
\* exception, and when no match ended it every photo of both dates was
\* tried), and the classification is the one of the hashes that were
\* obtained.
C14_FailedFetchSkipped ==
    /\ \A k \in 1..Len(fetchLog) : FailedFetch(fetchLog[k]) => fetchLog[k].hash = None
    /\ None \notin hashes_date1
    /\ hashes_date1 \subseteq {Md5(c) : c \in Contents}
    /\ (ppc \in {"date1", "date2"}) => photoQueue # <<>>
    /\ (fetchLog # <<>>) => ppc # "raised"
    /\ (ppc = "returned" /\ fetchLog # <<>>) =>
          /\ photoStatus.class \in {MatchPresent, PhotosOk}
          /\ photoStatus.class = PhotosOk =>
                /\ Len(fetchLog) = Len(PhotosOfDate(snapshot.photos, last_two_dates[1]))
                                   + Len(PhotosOfDate(snapshot.photos, last_two_dates[2]))
                /\ HashesOf(last_two_dates[1]) \cap HashesOf(last_two_dates[2]) = {}
          /\ photoStatus.class = MatchPresent =>
                fetchLog[Len(fetchLog)].hash \in HashesOf(last_two_dates[1])

\* A failed fetch of the most recent date, then photos of both dates
\* hashed and found equal.
C14_Witness ==
    /\ ppc = "returned"
    /\ Len(fetchLog) = 3
    /\ FailedFetch(fetchLog[1])
    /\ fetchLog[2].hash # None
    /\ photoStatus.class = MatchPresent

\* ---------------------------------------------------------------------------
\* DashboardstroiClient.get_catalog_objects
\* ---------------------------------------------------------------------------

\* The longest objects.data list of a catalog response.
MaxCatalog == 3

\* The objects of the catalog, each standing for its dictionary.
CatalogItems == {"obj1", "obj2", "obj3"}

\* The responses to GET /api/catalog: a status; whether the body is JSON;
\* whether data["objects"] is missing, null or a dict; whether its "data"
\* is missing, null or a list, and the list.
CatalogBodies ==
    {[decodes |-> FALSE, objects |-> "absent", data |-> "absent", items |-> <<>>]}
    \cup [decodes : {TRUE}, objects : {"absent", "null"}, data : {"absent"}, items : {<<>>}]
    \cup [decodes : {TRUE}, objects : {"dict"}, data : {"absent", "null"}, items : {<<>>}]
    \cup [decodes : {TRUE}, objects : {"dict"}, data : {"list"},
          items : SeqsUpTo(CatalogItems, MaxCatalog)]

CatalogResponses ==
    {[status |-> st, decodes |-> b.decodes, objects |-> b.objects, data |-> b.data,
      items |-> b.items] : st \in {200, 404, 500}, b \in CatalogBodies}

\* The values of oks_status_array_name: not given, empty, "СМР".
FilterNames == {None, <<>>, <<"SMR">>}

\* params of lines 128-130 (cameras.py); the other scripts send none.
CatalogParams(name) == IF Truthy(name) THEN <<[key |-> "oksStatusArrayName", val |-> name]>> ELSE <<>>

\* The variant that treats a non-200 status as an error.
GetCatalogObjectsStrict(resp) ==
    IF resp.status # 200 \/ ~resp.decodes \/ resp.objects = "null"
    THEN [outcome |-> "raised", value |-> <<>>]
    ELSE IF resp.objects = "absent" \/ resp.data = "absent" THEN [outcome |-> "list", value |-> <<>>]
    ELSE IF resp.data = "null" THEN [outcome |-> "None", value |-> <<>>]
    ELSE [outcome |-> "list", value |-> resp.items]

\* get_catalog_objects once the response is there: the list returned, None
\* returned (data is null), or an exception (the body is not JSON, or
\* objects is null).
GetCatalogObjects(resp) ==
    IF resp.status # 200 THEN [outcome |-> "list", value |-> <<>>]
    ELSE IF ~resp.decodes \/ resp.objects = "null" THEN [outcome |-> "raised", value |-> <<>>]
    ELSE IF resp.objects = "absent" \/ resp.data = "absent" THEN [outcome |-> "list", value |-> <<>>]
    ELSE IF resp.data = "null" THEN [outcome |-> "None", value |-> <<>>]
    ELSE [outcome |-> "list", value |-> resp.items]

\* get_catalog_objects(oks_status_array_name=name)
CatalogCall(name, resp) ==
    /\ Get(NoHeaders)
    /\ catParams' = CatalogParams(name)
    /\ catResp' = resp
    /\ catResult' = GetCatalogObjects(resp)
    /\ UNCHANGED <<upstream, listings>>

\* get_catalog_objects when the request itself raises.
CatalogCallFails(name) ==
    /\ Get(NoHeaders)
    /\ catParams' = CatalogParams(name)
    /\ catResp' = NoCatalogResp
    /\ catResult' = [outcome |-> "raised", value |-> <<>>]
    /\ UNCHANGED <<upstream, listings>>

NextCatalog ==
    \/ \E name \in FilterNames, resp \in CatalogResponses :
            CatalogCall(name, resp) /\ UNCHANGED nonCatalogVars
    \/ \E name \in FilterNames : CatalogCallFails(name) /\ UNCHANGED nonCatalogVars

InitSpecCatalog == InitAuth /\ IdleRun /\ IdleEtapi /\ IdleRecon /\ IdlePhoto /\ IdleCatalog /\ InitSuid

SpecCatalog == InitSpecCatalog /\ [][NextCatalog]_vars

\* C15: get_catalog_objects returns [] without raising for every non-200
\* response; for a 200 response with objects.data it returns that list in
\* its order, and [] when the body has no objects key or no data key.
C15_CatalogObjects ==
    /\ (catResp.status \notin {0, 200}) => catResult = [outcome |-> "list", value |-> <<>>]
    /\ (catResp.status = 200 /\ catResp.decodes /\ catResp.objects = "dict"
            /\ catResp.data = "list")
          => catResult = [outcome |-> "list", value |-> catResp.items]
    /\ (catResp.status = 200 /\ catResp.decodes
            /\ (catResp.objects = "absent" \/ (catResp.objects = "dict" /\ catResp.data = "absent")))
          => catResult = [outcome |-> "list", value |-> <<>>]

\* An error response whose body carries a list, answered with [].
C15_Witness ==
    /\ catResp.status = 500
    /\ catResp.data = "list" /\ Len(catResp.items) = 2 /\ catResp.items[1] # catResp.items[2]
    /\ catResult = [outcome |-> "list", value |-> <<>>]

\* ---------------------------------------------------------------------------
\* Further claims about collect_etapi_data (SpecEtapi)
\* ---------------------------------------------------------------------------

\* C16: get_manager_name never returns null: every name it put into the
\* cache is a string, the manager's name or the sentinel.
C16_ManagerNameIsString ==
    \A i \in 1..Len(cash) : cash[i].name # None

\* The control-point fetch of lastObj succeeded and its loop body is over.
FetchedAndFinished ==
    /\ ObjectFinished
    /\ outcomes # <<>>
    /\ outcomes[Len(outcomes)].kind = "ok"

\* C17: an object whose control-point fetch succeeded has one row per
\* control point, the in_progress points first, then the complete ones, in
\* the order of the response, each with the object's id and its status; an
\* object without any point has exactly one row, of status
\* no_control_points.
C17_RowsPerControlPoint ==
    FetchedAndFinished =>
        LET e == outcomes[Len(outcomes)].body
            rows == RowsOfObject(all_data, lastObj)
            n == Len(e.in_progress)
        IN IF e.in_progress = <<>> /\ e.complete = <<>>
           THEN Len(rows) = 1 /\ rows[1].status = "no_control_points"
           ELSE /\ Len(rows) = n + Len(e.complete)
                /\ \A i \in 1..Len(rows) :
                      /\ rows[i].object_id = lastObj
                      /\ rows[i].status = IF i <= n THEN "in_progress" ELSE "complete"
                      /\ rows[i].name = IF i <= n THEN e.in_progress[i].name
                                        ELSE e.complete[i - n].name

\* ---------------------------------------------------------------------------
\* Further claims about the reconciliation (SpecRecon)
\* ---------------------------------------------------------------------------

\* The works returned for an object in a pass, in their order.
WorkList(pass, oid) ==
    LET ks == {k \in 1..Len(fetched) : fetched[k].pass = pass /\ fetched[k].id = oid}
    IN IF ks = {} THEN <<>> ELSE fetched[CHOOSE k \in ks : \A j \in ks : j <= k].works

\* A row the matching has to resolve: overdue, of a control point, not of an
\* exon object, with a name.
ToResolve(r) ==
    /\ r.is_exceeded
    /\ r.status # "no_control_points"
    /\ r.control_point_comparsion # ExonMark
    /\ Truthy(r.name)

\* C18: after the matching, a row to resolve whose lowercased name is among
\* the lowercased names of its object's works carries the planned start,
\* planned end and actual completion of such a work and no classification;
\* one whose name is not among them is classified 'РАБОТА НЕ НАЙДЕНА' and
\* has no ledger dates; every other row has no ledger dates and the
\* classification it had.
C18_LedgerDatesOrNotFound ==
    Compared =>
        \A i \in 1..Len(df_new) :
            LET r == df_new[i]
                works == WorkList(1, r.object_id)
                hits == {k \in 1..Len(works) : Lower(works[k].name) = Lower(r.name)}
            IN IF ToResolve(r) /\ hits # {}
               THEN /\ r.control_point_comparsion = None
                    /\ \E k \in hits :
                          /\ r.suid_start = ToDate(works[k].start_date)
                          /\ r.suid_end = ToDate(works[k].end_date)
                          /\ r.fact_end_date_suid = works[k].fact_end_date
               ELSE /\ r.suid_start = NaT /\ r.suid_end = NaT /\ r.fact_end_date_suid = None
                    /\ r.control_point_comparsion =
                          IF ToResolve(r) THEN NotFoundMark ELSE Comparsion(df[i].suid_url)

\* In one run a row named "A" got the dates of the work "a", another row
\* found no work, and a row that is not overdue was left alone.
C18_Witness ==
    /\ rpc = "exported"
    /\ \E i \in 1..Len(df_new) :
           /\ df_new[i].name = <<"A">>
           /\ df_new[i].suid_end = ToDate(<<"2024", "01", "15">>)
           /\ df_new[i].suid_start # NaT
    /\ \E j \in 1..Len(df_new) : df_new[j].control_point_comparsion = NotFoundMark

\* C19: every object whose works were asked for in the supplementary pass
\* has exactly one additional_check row for every supplementary name, found
\* (дополнительная точка) when the name is a lowercased work name of the
\* object and not found (не найдена в СУИД) otherwise.
C19_RowPerObjectAndName ==
    \A k \in 1..Len(fetched) :
        (fetched[k].pass = 2 /\ ~NamelessWork(fetched[k].works)) =>
            \A c \in 1..Len(control_points_list) :
                LET cp == control_points_list[c]
                    rows == {i \in 1..Len(additional_data) :
                                /\ additional_data[i].object_id = fetched[k].id
                                /\ additional_data[i].name = cp}
                    listed == \E j \in 1..Len(fetched[k].works) :
                                  Lower(fetched[k].works[j].name) = cp
                IN /\ Cardinality(rows) = 1
                   /\ \A i \in rows :
                         /\ additional_data[i].status = "additional_check"
                         /\ additional_data[i].found_in_suid = listed
                         /\ additional_data[i].control_point_comparsion =
                                IF listed THEN AdditionalMark ELSE NotInSuidMark

\* C20: the works of an object are requested at most once in a run, both
\* passes together.
C20_WorksRequestedOnce ==
    \A k1, k2 \in 1..Len(fetched) : fetched[k1].id = fetched[k2].id => k1 = k2

-----------------------------------------------------------------------------
(* get_photo_status: the yesterday flag *)

\* The call returned for a snapshot with at least one dated photo.
DatedPhotosReturned == ppc = "returned" /\ DatesOf(snapshot.photos) # {}

\* C29: for an object with at least one dated photo, also with two or
\* more distinct dates, the yesterday flag of the result is true exactly
\* when the most recent capture date is the day before today.
C29_YesterdayIsMostRecent ==
    DatedPhotosReturned =>
        (photoStatus.yesterday <=>
            SortedDesc(DatesOf(snapshot.photos))[1] = YesterdayText)

-----------------------------------------------------------------------------
(* Further claims about the reconciliation *)

\* The year-month-day texts of the model that name a day of the calendar.
IsRealDay(txt) ==
    txt \in {<<"2024", "01", "15">>, <<"2024", "01", "30">>, <<"2024", "02", "15">>}

\* C28: a control-point row (status in_progress or complete) whose planned
\* finish is null or not a valid ISO date is never flagged overdue, is not
\* among the rows sent to the ledger resolution, gets no ledger date and is
\* never marked 'РАБОТА НЕ НАЙДЕНА'.
C28_NoPlanNeverOverdue ==
    \A i \in 1..Len(df_new) :
        (df[i].status \in {"in_progress", "complete"} /\ ~IsRealDay(df[i].plan_finish_date))
            => /\ ~df_new[i].is_exceeded
               /\ ~InToProcess(df_new[i])
               /\ df_new[i].control_point_comparsion # NotFoundMark
               /\ df_new[i].suid_start = NaT
               /\ df_new[i].suid_end = NaT
               /\ df_new[i].fact_end_date_suid = None

\* An exported run with an unfinished control point planned for 30 February
\* whose object has a ledger address, next to an overdue row that was
\* resolved.
C28_Witness ==
    /\ rpc = "exported"
    /\ \E i \in 1..Len(df_new) :
           /\ df[i].status = "in_progress"
           /\ df[i].plan_finish_date = <<"2024", "02", "30">>
           /\ df[i].fact_finish_date = None
           /\ df[i].suid_url = SuidUrl
           /\ ~df_new[i].is_exceeded
    /\ \E k \in 1..Len(fetched) : fetched[k].pass = 1

\* C26: every supplementary row classified 'не найдена в СУИД' has no ledger
\* planned start, planned end or actual completion, and such a row is built
\* for every name that is not in the object's work list, whatever was found
\* before for this or an earlier object.
C26_NotInSuidRowsAreEmpty ==
    /\ \A i \in 1..Len(additional_data) :
           additional_data[i].control_point_comparsion = NotInSuidMark
               => /\ additional_data[i].suid_start = NaT
                  /\ additional_data[i].suid_end = NaT
                  /\ additional_data[i].fact_end_date_suid = None
    /\ \A k \in 1..Len(fetched) :
           (fetched[k].pass = 2 /\ ~NamelessWork(fetched[k].works)) =>
               \A c \in 1..Len(control_points_list) :
                   (\A j \in 1..Len(fetched[k].works) :
                        Lower(fetched[k].works[j].name) # control_points_list[c])
                       => \E i \in 1..Len(additional_data) :
                              /\ additional_data[i].object_id = fetched[k].id
                              /\ additional_data[i].name = control_points_list[c]
                              /\ additional_data[i].control_point_comparsion = NotInSuidMark

\* ---- the runs in which every login succeeds and every request is answered

\* What the ledger answers when the request itself goes through.
AnsweredKinds == WorksKinds \ {"neterr"}

NextReconData ==
    \/ ReconFlag /\ UNCHANGED nonReconVars
    \/ ReconSuidAuthorize(TRUE) /\ UNCHANGED nonReconVars
    \/ \E kind \in AnsweredKinds : ReconFetchWorks(kind) /\ UNCHANGED nonReconVars
    \/ ReconMatch /\ UNCHANGED nonReconVars
    \/ ReconLoadList /\ UNCHANGED nonReconVars
    \/ \E kind \in AnsweredKinds : ReconAdditional(kind) /\ UNCHANGED nonReconVars
    \/ \E file \in ExclusionFiles : ReconExport(file) /\ UNCHANGED nonReconVars

SpecReconData == InitSpecRecon /\ [][NextReconData]_vars

\* C27: once both logins and the collection have succeeded, with at least
\* one collected row and a control_points.xlsx that is readable or missing,
\* the run never ends before the export: whatever the collected data (no
\* row overdue, no supplementary file, an overdue object without ledger
\* address), the export step is reached and the file written.
C27_ExportAlwaysReached ==
    (df # <<>> /\ cpFile.kind # "broken") => rpc # "aborted"

\* ---- the last columns and the exclusion mark

\* Row i of the frame the export works on: the rows of df_new, then the
\* supplementary rows.
OutputRow(i) == IF i <= Len(df_new) THEN df_new[i] ELSE additional_data[i - Len(df_new)]

\* C21: mark_column_as sets the exclusion flag on exactly the rows whose
\* object id is in the exclusion list and changes nothing else: the rows,
\* their order and their other cells are as before, excluded rows included;
\* when the list file cannot be read no row is marked.
C21_ExclusionMarksOnly ==
    rpc = "exported" =>
        /\ Len(final) = Len(df_new) + Len(additional_data)
        /\ \A i \in 1..Len(final) :
               /\ final[i].object_id = OutputRow(i).object_id
               /\ final[i].status = OutputRow(i).status
               /\ final[i].name = OutputRow(i).name
               /\ final[i].is_directive_equal = IsDirectiveEqual(i)
               /\ final[i].exclude_from_check =
                      IF exclFile.kind # "ok" THEN "absent"
                      ELSE IF \E k \in 1..Len(exclFile.ids) :
                                  exclFile.ids[k] = OutputRow(i).object_id
                           THEN "True" ELSE "NaN"

\* An export whose list names object 2 and an object that is not in the
\* frame: the rows of object 2 are marked and stay, those of object 1 are
\* not marked, supplementary rows among them.
C21_Witness ==
    /\ rpc = "exported"
    /\ exclFile = [kind |-> "ok", ids |-> <<2, 7>>]
    /\ additional_data # <<>>
    /\ \E i \in 1..Len(final) :
           final[i].object_id = 2 /\ final[i].exclude_from_check = "True"
    /\ \E i \in 1..Len(final) :
           final[i].object_id = 1 /\ final[i].exclude_from_check = "NaN"

\* C30: in the exported frame the is_directive_equal flag of a collected
\* row is true exactly when its planned finish (an ISO date) and the
\* planned regulatory completion date of its object (day.month.year) are
\* the same calendar day, and the flag stands on the row it was computed
\* for, also after the supplementary rows were appended.
C30_DirectiveEqualSameDay ==
    rpc = "exported" =>
        \A i \in 1..Len(df) :
            /\ final[i].object_id = df[i].object_id
            /\ final[i].name = df[i].name
            /\ (final[i].is_directive_equal = "True") <=>
                   /\ ToDate(df[i].plan_finish_date) # NaT
                   /\ ToDate(df[i].plan_finish_date) =
                          ToDirectiveDate(directive_date_map[df[i].object_id])

-----------------------------------------------------------------------------
(* The throttle of collect_etapi_data *)

\* C22: on every path through the loop body of collect_etapi_data, skipped
\* objects included, the last thing done for an object before the first
\* request for the next one is a throttle sleep of 0.5 to 0.7 seconds.
C22_ThrottleOnEveryPath ==
    (ObjectFinished /\ epc = "manager") =>
        /\ sleeps # <<>>
        /\ sleeps[Len(sleeps)] \in 5..7

-----------------------------------------------------------------------------
(* get_catalog_ids, called again and again *)

\* The most get_catalog_ids calls of a run.
MaxListings == 2

\* An object of the catalog that has no key id.
NoIdItem == "objNoId"

ListingItems == CatalogItems \cup {NoIdItem}

\* obj["id"] of the objects that have one.
ItemId(item) ==
    CASE item = "obj1" -> 1
      [] item = "obj2" -> 2
      [] OTHER         -> 3

\* What the backend answers while nothing changes on its side.
ListingResponses ==
    {[status |-> st, decodes |-> b.decodes, objects |-> b.objects, data |-> b.data,
      items |-> b.items] :
        st \in {200, 500},
        b \in {bb \in CatalogBodies : bb.data # "list"}
               \cup [decodes : {TRUE}, objects : {"dict"}, data : {"list"},
                     items : SeqsUpTo(ListingItems, MaxCatalog)]}

\* The variant that keeps one entry per identifier.
RECURSIVE IdsOfDistinct(_)
IdsOfDistinct(items) ==
    IF items = <<>> THEN <<>>
    ELSE LET rest == IdsOfDistinct(Tail(items)) IN
         IF Head(items) = NoIdItem \/ InSeq(ItemId(Head(items)), rest) THEN rest
         ELSE <<ItemId(Head(items))>> \o rest

\* [obj["id"] for obj in objects if "id" in obj]
RECURSIVE IdsOf(_)
IdsOf(items) ==
    IF items = <<>> THEN <<>>
    ELSE (IF Head(items) = NoIdItem THEN <<>> ELSE <<ItemId(Head(items))>>)
         \o IdsOf(Tail(items))

\* get_catalog_ids once the response is there: iterating the None that
\* get_catalog_objects returns for a null data raises.
GetCatalogIds(resp) ==
    LET objs == GetCatalogObjects(resp) IN
    IF objs.outcome = "list" THEN [outcome |-> "list", value |-> IdsOf(objs.value)]
    ELSE [outcome |-> "raised", value |-> <<>>]

\* One more call of get_catalog_ids against the same backend.
ListIds ==
    /\ Len(listings) < MaxListings
    /\ Get(NoHeaders)
    /\ listings' = Append(listings, GetCatalogIds(upstream))
    /\ UNCHANGED <<catParams, catResp, catResult, upstream>>

NextListing == ListIds /\ UNCHANGED nonCatalogVars

InitSpecListing ==
    /\ InitAuth /\ IdleRun /\ IdleEtapi /\ IdleRecon /\ IdlePhoto /\ InitSuid
    /\ catParams = <<>>
    /\ catResp = NoCatalogResp
    /\ catResult = NoCatalogResult
    /\ upstream \in ListingResponses
    /\ listings = <<>>

SpecListing == InitSpecListing /\ [][NextListing]_vars

\* The positions of the upstream list whose object has an id.
WithId == {i \in 1..Len(upstream.items) : upstream.items[i] # NoIdItem}

\* C25: against an unchanged backend every call of the listing gives the
\* same result as the first one; for a 200 answer carrying a list, the
\* result is the ids of the objects that have one, each entry kept, in the
\* order of the answer.
C25_ListingIsStable ==
    \A k \in 1..Len(listings) :
        /\ listings[k] = listings[1]
        /\ (upstream.status = 200 /\ upstream.data = "list") =>
               /\ listings[k].outcome = "list"
               /\ Len(listings[k].value) = Cardinality(WithId)
               /\ \A j \in 1..Len(listings[k].value) :
                      LET i == CHOOSE i \in WithId :
                                   Cardinality({m \in WithId : m <= i}) = j
                      IN listings[k].value[j] = ItemId(upstream.items[i])

\* Two calls against a list that holds an object without id between two
\* objects with the same id.
C25_Witness ==
    /\ Len(listings) = 2
    /\ upstream.status = 200
    /\ upstream.items = <<"obj2", NoIdItem, "obj2">>
    /\ listings[2] = [outcome |-> "list", value |-> <<2, 2>>]

-----------------------------------------------------------------------------
(* SUIDClient *)

\* The most works of one answer of the ledger.
MaxWorks == 2

SuidHost == <<"suid.mos.ru">>

SudirHost == <<"sudir.mos.ru">>

\* resp.json()["access_token"]
SuidAccessToken == <<"suid-access-token">>

\* str() of an Optional[str] inside an f-string.
PyStr(t) == IF t = None THEN <<"None">> ELSE t

\* A request as it leaves: who sent it, where to, the two token headers and
\* the cookies of the sender's jar that belong to the host.
Sent(client, host, authorization, xsrf, jar) ==
    [client |-> client, host |-> host, authorization |-> authorization, xsrf |-> xsrf,
     cookies |-> {c \in jar : c.domain = host}]

\* The variant that sends the token of the dashboard client.
DashboardAuthorization == Bearer(PyStr(token))

\* "Authorization": f"Bearer {self.token}" of SUIDClient.get and post
SuidAuthorization == Bearer(PyStr(suid_token))

\* f"https://suid.mos.ru/api/isr-new-service/common/{uuid}/all"
ApiUrl(uuid) == <<"https://suid.mos.ru/api/isr-new-service/common/", uuid, "/all">>

\* dict.get(key) on a work of the answer: None for a missing key.
GetOrNone(v) == IF v = Absent THEN None ELSE v

\* get_works once the response is there: [] for a status other than 200,
\* for a body that does not decode and for a works that cannot be iterated;
\* else one entry per work.
GetWorksEntries(resp) ==
    IF resp.status # 200 \/ ~resp.decodes \/ resp.works # "list" THEN <<>>
    ELSE [i \in 1..Len(resp.items) |->
             [start_date |-> GetOrNone(resp.items[i].start_date),
              end_date |-> GetOrNone(resp.items[i].end_date),
              name |-> GetOrNone(resp.items[i].name),
              fact_end_date |-> GetOrNone(resp.items[i].fact_end_date)]]

\* SUIDClient(username, password) once more: the second and third client of
\* control_points_parser.
SuidNewClient ==
    /\ suid_token # None \/ suid_jar # {}
    /\ suid_token' = None
    /\ suid_jar' = {}
    /\ actor' = "suid"
    /\ UNCHANGED <<dash_jar, wire, worksReq, worksResp, worksResult>>

\* SUIDClient.authorize(): requests.post outside any session; the token is
\* stored when the answer is ok.
SuidAuthorize(kind) ==
    /\ wire' = wire \cup {Sent("suid", SuidHost, None, None, {})}
    /\ suid_token' = IF kind = "ok" THEN SuidAccessToken ELSE suid_token
    /\ actor' = "suid"
    /\ UNCHANGED <<suid_jar, dash_jar, worksReq, worksResp, worksResult>>

\* SUIDClient.get_works(arg) answered by resp, whose Set-Cookie is setc.
GetWorksCall(arg, resp, setc) ==
    /\ worksReq' = [sent |-> TRUE, arg |-> arg, url |-> ApiUrl(Uuid(arg))]
    /\ wire' = wire \cup {Sent("suid", SuidHost, SuidAuthorization, None, suid_jar)}
    /\ suid_jar' = suid_jar \cup setc
    /\ worksResp' = resp
    /\ worksResult' = GetWorksEntries(resp)
    /\ actor' = "suid"
    /\ UNCHANGED <<suid_token, dash_jar>>

\* The addresses get_works is called with.
WorksUrls ==
    {SuidUrl, SuidUrl2, <<"https://suid.mos.ru/ksg/", "u1", "/", "/">>,
     <<"https://suid.mos.ru/ksg/", "p", "/", "u2">>}

\* The works of an answer: any of the four keys may be missing or null.
WorkItems ==
    [name : {Absent, None, <<"a">>}, start_date : {Absent, <<"2024", "01", "01">>},
     end_date : {<<"2024", "01", "15">>}, fact_end_date : {Absent, None,
                                                            <<"2024", "01", "15">>}]

\* The answers to the POST: a status; whether the body decodes; whether
\* works is missing, null or a list.
WorksResponses ==
    {[status |-> st, decodes |-> b.decodes, works |-> b.works, items |-> b.items] :
        st \in {200, 404},
        b \in {[decodes |-> FALSE, works |-> "absent", items |-> <<>>]}
               \cup [decodes : {TRUE}, works : {"absent", "null"}, items : {<<>>}]
               \cup [decodes : {TRUE}, works : {"list"},
                     items : SeqsUpTo(WorkItems, MaxWorks)]}

\* The runs of get_works looked at: one call, before or after the logins.
NextWorks ==
    \/ SuidNewClient /\ UNCHANGED <<authVars, nonSessionVars>>
    \/ \E kind \in {"ok", "denied"} : SuidAuthorize(kind) /\ UNCHANGED <<authVars, nonSessionVars>>
    \/ /\ ~worksReq.sent
       /\ \E arg \in WorksUrls, resp \in WorksResponses :
              GetWorksCall(arg, resp, {}) /\ UNCHANGED <<authVars, nonSessionVars>>

InitSpecWorks ==
    InitAuth /\ IdleRun /\ IdleEtapi /\ IdleRecon /\ IdlePhoto /\ IdleCatalog /\ InitSuid

SpecWorks == InitSpecWorks /\ [][NextWorks]_vars

\* The last atom of the address that is not a "/".
LastSegment(u) == u[CHOOSE i \in 1..Len(u) : u[i] # "/" /\ \A j \in (i + 1)..Len(u) : u[j] = "/"]

\* C23: get_works posts to .../common/{segment}/all where segment is the
\* last path segment of its argument, trailing slashes left out; it returns
\* [] for every status other than 200 and for every body that does not
\* decode; for a 200 with a list of works it returns one entry per work, in
\* order, with the work's name, start_date, end_date and fact_end_date
\* (None for a key the work does not have).
C23_GetWorks ==
    worksReq.sent =>
        /\ worksReq.url = <<"https://suid.mos.ru/api/isr-new-service/common/",
                            LastSegment(worksReq.arg), "/all">>
        /\ (worksResp.status # 200 \/ ~worksResp.decodes) => worksResult = <<>>
        /\ (worksResp.status = 200 /\ worksResp.decodes /\ worksResp.works = "list") =>
               /\ Len(worksResult) = Len(worksResp.items)
               /\ \A i \in 1..Len(worksResult) :
                      \A f \in {"name", "start_date", "end_date", "fact_end_date"} :
                          worksResult[i][f] =
                              IF worksResp.items[i][f] = Absent THEN None
                              ELSE worksResp.items[i][f]

\* An address with a trailing slash, answered with two works of which the
\* first has no name: two entries in that order.
C23_Witness ==
    /\ worksReq.sent
    /\ worksReq.arg = SuidUrl2
    /\ worksReq.url[2] = "u2"
    /\ worksResp.status = 200
    /\ Len(worksResp.items) = 2
    /\ worksResp.items[1].name = Absent
    /\ worksResp.items[2].name = <<"a">>
    /\ Len(worksResult) = 2
    /\ worksResult[1].name = None
    /\ worksResult[2].name = <<"a">>

-----------------------------------------------------------------------------
(* The two clients of control_points_parser side by side *)

\* A cookie: the host it belongs to, its name, and the session whose jar
\* stored it.
Cookie(domain, name, jar) == [domain |-> domain, name |-> name, jar |-> jar]

\* Where the login of the dashboard client can end in these runs: on the
\* dashboard with a token, on the dashboard without one, on a foreign host.
SessionUrls ==
    {[host |-> <<Dom>>, path |-> <<"/">>, query |-> <<[key |-> "token", val |-> <<"2">>]>>],
     [host |-> <<Dom>>, path |-> <<"/">>, query |-> <<>>],
     [host |-> <<Dom, ".evil.example">>, path |-> <<"/">>,
      query |-> <<[key |-> "token", val |-> <<"2">>]>>]}

\* DashboardstroiClient.authorize(): its requests go through self.session to
\* the identity provider and along the redirects; the jar keeps the cookies
\* they set.
SessAuthorize(u, c) ==
    /\ Authorize(u, c)
    /\ wire' = wire \cup {Sent("dashboard", SudirHost, None, None, dash_jar),
                          Sent("dashboard", u.host, None, None, dash_jar)}
    /\ dash_jar' = dash_jar \cup {Cookie(SudirHost, "blitz", "dashboard")}
                     \cup (IF c = None THEN {}
                           ELSE {Cookie(<<Dom>>, "XSRF-TOKEN", "dashboard")})
    /\ actor' = "dashboard"
    /\ UNCHANGED <<suid_token, suid_jar, worksReq, worksResp, worksResult>>

\* DashboardstroiClient.get("/api/..."): base_url + path through
\* self.session.
SessGet ==
    /\ Get(NoHeaders)
    /\ wire' = wire \cup {Sent("dashboard", <<Dom>>,
                               AttachedHeaders(NoHeaders, <<>>).Authorization,
                               AttachedHeaders(NoHeaders, <<>>).XXsrfToken, dash_jar)}
    /\ actor' = "dashboard"
    /\ UNCHANGED <<suid_token, suid_jar, dash_jar, worksReq, worksResp, worksResult>>

\* What the ledger answers in these runs, and the cookie it may set.
SessionResponses ==
    {[status |-> 200, decodes |-> TRUE, works |-> "list", items |-> <<>>],
     [status |-> 404, decodes |-> FALSE, works |-> "absent", items |-> <<>>]}

SuidCookies == {{}, {Cookie(SuidHost, "JSESSIONID", "suid")}}

NextSessions ==
    \/ \E u \in SessionUrls, c \in CookieVals :
            SessAuthorize(u, c) /\ UNCHANGED nonSessionVars
    \/ SessGet /\ UNCHANGED nonSessionVars
    \/ SuidNewClient /\ UNCHANGED <<authVars, nonSessionVars>>
    \/ \E kind \in {"ok", "denied"} : SuidAuthorize(kind) /\ UNCHANGED <<authVars, nonSessionVars>>
    \/ \E arg \in {SuidUrl, SuidUrl2}, resp \in SessionResponses, setc \in SuidCookies :
            GetWorksCall(arg, resp, setc) /\ UNCHANGED <<authVars, nonSessionVars>>

SpecSessions == InitSpecWorks /\ [][NextSessions]_vars

\* Every request to the ledger was sent by the ledger client with nothing
\* of the dashboard's on it, and every other request by the dashboard
\* client with nothing of the ledger's on it.
WireIsolated ==
    \A r \in wire :
        IF r.host = SuidHost
        THEN /\ r.client = "suid"
             /\ r.xsrf = None
             /\ r.authorization \in {None, <<"Bearer ", "None">>, <<"Bearer ">> \o SuidAccessToken}
             /\ \A c \in r.cookies : c.jar = "suid"
        ELSE /\ r.client = "dashboard"
             /\ r.authorization # <<"Bearer ">> \o SuidAccessToken
             /\ \A c \in r.cookies : c.jar = "dashboard"

\* A step of one client leaves the token and the jar of the other alone.
OwnStateOnly ==
    /\ actor' = "suid" => UNCHANGED <<token, xsrf_token, dash_jar>>
    /\ actor' = "dashboard" => UNCHANGED <<suid_token, suid_jar>>

\* C24: at every point of a run the two sessions are isolated: no request
\* to the ledger carries the dashboard's bearer token, CSRF token or
\* cookies, no request of the dashboard client carries the ledger's token
\* or cookies, and no step of one client changes the token or the cookie
\* jar of the other.
C24_SessionsIsolated == [](WireIsolated) /\ [][OwnStateOnly]_vars

\* Both clients are logged in and have sent requests with their own token
\* and cookies.
C24_Witness ==
    /\ Truthy(token) /\ Truthy(xsrf_token)
    /\ suid_token = SuidAccessToken
    /\ \E r \in wire :
           /\ r.host = SuidHost
           /\ r.authorization = <<"Bearer ">> \o SuidAccessToken
           /\ r.cookies # {}
    /\ \E r \in wire :
           /\ r.host = <<Dom>>
           /\ r.authorization = <<"Bearer ">> \o token
           /\ r.xsrf = xsrf_token
           /\ r.cookies # {}

=============================================================================
